---------------------------- MODULE Spec2Model ----------------------------
(***************************************************************************)
(* A model of dimpact's core: the impact traversal (src/src/impact.rs),    *)
(* the reference resolver (src/src/impact.rs), the persistent index store  *)
(* (src/src/cache.rs), the change mapper (src/src/mapping.rs), the diff    *)
(* parser (src/src/diff.rs), the two engines (src/src/engine/ts.rs,        *)
(* src/src/engine/lsp.rs) and the seed parser (src/src/bin/dimpact.rs).    *)
(*                                                                         *)
(* Strings that the code takes apart (paths, module paths, import values)  *)
(* are sequences of tokens: "mod/agg.ts" is <<"mod", "/", "agg", ".ts">>.  *)
(* Concatenation is \o and ends_with is a suffix test on the tokens.       *)
(* Option<T> is a sequence of length 0 (None) or 1 (Some).                 *)
(***************************************************************************)
EXTENDS Integers, Sequences, FiniteSets, TLC

VARIABLES
    \* ---- compute_impact (impact.rs:271-332) ----
    refs,              \* the input edge list: Seq of [from, to]
    changed,           \* the seed list: Seq of symbol ids
    direction,         \* "callers" | "callees" | "both"
    max_depth,         \* Option<usize>: <<>> or <<n>>
    q,                 \* the VecDeque of <<id, depth>>
    seen,              \* the HashSet of visited ids
    impacted_symbols,  \* the output list of symbol ids
    ipc,               \* position in compute_impact: "idle" | "start" | "bfs" | "done"
    with_edges,        \* opts.with_edges: Option<bool>
    ignore_dirs,       \* opts.ignore_dirs: a set of path prefixes
    out,               \* the other fields of ImpactOutput, once compute_impact returned
    \* ---- the workspace and the persistent store (cache.rs) ----
    fs,                \* the workspace: path -> content ("absent" when there is no file)
    db,                \* the store file: [files, symbols, edges, meta]
    opened,            \* a process holds a connection that open() returned
    pc,                \* position of the writer: "idle" | "build" | "edges"
    pend,              \* the running (or last) operation: [op, paths, snap]
    ret,               \* Option<CacheStats>: what the last finished operation returned
    steps,             \* how many calls and workspace changes the run has seen
    \* ---- history, kept for stating the properties ----
    preDb,             \* the store when the running (or last) operation began
    hist,              \* what led to this state: [tag, paths, expect, ret0]
    legacy,            \* paths whose rows were written under another schema version
    \* ---- a concurrent reader (load_graph) ----
    rpc,               \* position of the reader: "idle" | "edges"
    rIndex,            \* the symbols load_index returned to the reader
    rView,             \* Option<graph>: what the reader's load_graph returned
    rBase,             \* the committed stores that load_graph call may report
    \* ---- resolve_references (impact.rs:69-184) ----
    rsIndex,           \* index.symbols: the Symbols in the order SymbolIndex::build got them
    rsUrefs,           \* the unresolved call sites
    rsImports,         \* file_imports: file -> import map
    rsOut,             \* the `out` vector of References
    rsLast,            \* the last round of `for r in urefs`: <<>> or <<[r, made]>>
    rspc,              \* position in resolve_references: "idle" | "loop" | "done"
    \* ---- compute_changed_symbols (mapping.rs:24-88) ----
    mDiffs,            \* the diff records: Seq of FileChanges
    mLines,            \* changed_lines_by_file: path -> set of line numbers
    mTodo,             \* the entries of changed_lines_by_file not yet visited
    mOut,              \* the ChangedOutput: [changed_files, changed_symbols]
    mpc,               \* position in compute_changed_symbols: "idle" | "start" | "emit" | "done"
    \* ---- parse_seed_symbol (bin/dimpact.rs:257-289) ----
    sdIn,              \* the seed string handed in
    sdOut,             \* Option<Result<Symbol>>: <<>> until parse_seed_symbol returned
    sdpc,              \* position in parse_seed_symbol: "idle" | "start" | "done"
    \* ---- LspEngine (engine/lsp.rs:325-527) ----
    lspCfg,            \* the EngineConfig: [lsp_strict, mock_lsp, mock_caps]
    lspEnv,            \* what LspSession::new meets: [disable_real, server]
    lspArgs,           \* the arguments of the call: [lang, direction, seeds_empty]
    lspCall,           \* the call made: [op, sess] with sess the probed session, if any
    lspRes,            \* Option<Result>: <<>> until the call returned
    lspc,              \* position of the engine's caller: "idle" | "start" | "done"
    \* ---- TsEngine (engine/ts.rs:19-62) ----
    tsCall,            \* the call made: [op, changed_files]
    tsGraph,           \* Option<graph>: what load_graph returned to the engine
    \* ---- parse_unified_diff (diff.rs:61-179) ----
    dfIn,              \* the input, as its lines
    dfOut,             \* Option<Result<Vec<FileChanges>>>: <<>> until the parser returned
    dfpc               \* position in parse_unified_diff: "idle" | "start" | "done"

impactVars == <<refs, changed, direction, max_depth, q, seen, impacted_symbols, ipc,
                with_edges, ignore_dirs, out>>
storeVars == <<fs, db, opened, pc, pend, ret, steps, preDb, hist, legacy>>
readerVars == <<rpc, rIndex, rView, rBase>>

resolveVars == <<rsIndex, rsUrefs, rsImports, rsOut, rsLast, rspc>>
mapVars == <<mDiffs, mLines, mTodo, mOut, mpc>>

seedVars == <<sdIn, sdOut, sdpc>>
lspVars == <<lspCfg, lspEnv, lspArgs, lspCall, lspRes, lspc>>
tsVars == <<tsCall, tsGraph>>
diffVars == <<dfIn, dfOut, dfpc>>
frontVars == <<seedVars, lspVars, tsVars, diffVars>>

vars == <<impactVars, storeVars, readerVars, resolveVars, mapVars, frontVars>>

(***************************************************************************)
(* Bounds and input universes.                                             *)
(***************************************************************************)
\* longest edge list handed to compute_impact
MaxRefs == 2

\* symbol ids are ordered like their strings; 4 is an id the index does not hold
AllIds == {1, 2, 3, 4}
IndexedIds == {1, 2, 3}
SeedLists == {<<>>} \cup {<<a>> : a \in AllIds} \cup {<<a, b>> : a \in AllIds, b \in AllIds}
DepthChoices == {<<>>, <<0>>, <<1>>, <<2>>}
Directions == {"callers", "callees", "both"}
RefLists == UNION {[1..n -> [from : AllIds, to : AllIds]] : n \in 0..MaxRefs}

(***************************************************************************)
(* Generic helpers.                                                        *)
(***************************************************************************)
Range(s) == {s[i] : i \in 1..Len(s)}

Min(S) == CHOOSE x \in S : \A y \in S : x <= y

RECURSIVE SortedSeq(_)
SortedSeq(S) == IF S = {} THEN <<>> ELSE <<Min(S)>> \o SortedSeq(S \ {Min(S)})

(***************************************************************************)
(* Strings as token sequences.                                             *)
(***************************************************************************)
StartsWith(s, pre) == Len(pre) <= Len(s) /\ SubSeq(s, 1, Len(pre)) = pre

EndsWith(s, suf) == Len(suf) <= Len(s) /\ SubSeq(s, Len(s) - Len(suf) + 1, Len(s)) = suf

Contains(s, sub) == \E i \in 1..(Len(s) - Len(sub) + 1) : SubSeq(s, i, i + Len(sub) - 1) = sub

\* str::replace of one token by another
ReplaceTok(s, a, b) == [i \in 1..Len(s) |-> IF s[i] = a THEN b ELSE s[i]]

FirstIdx(s, t) ==
    IF \E i \in 1..Len(s) : s[i] = t THEN Min({i \in 1..Len(s) : s[i] = t}) ELSE 0

LastIdx(s, t) ==
    IF \E i \in 1..Len(s) : s[i] = t
    THEN CHOOSE i \in 1..Len(s) : s[i] = t /\ \A j \in (i + 1)..Len(s) : s[j] # t
    ELSE 0

RECURSIVE TrimStart(_, _)
\* str::trim_start_matches: every repetition of the prefix goes
TrimStart(s, pre) ==
    IF StartsWith(s, pre) THEN TrimStart(SubSeq(s, Len(pre) + 1, Len(s)), pre) ELSE s

RECURSIVE TrimEnd(_, _)
\* str::trim_end_matches: every repetition of the suffix goes
TrimEnd(s, suf) ==
    IF EndsWith(s, suf) THEN TrimEnd(SubSeq(s, 1, Len(s) - Len(suf)), suf) ELSE s

RECURSIVE SplitOn(_, _)
\* str::split on a separator token: at least one part
SplitOn(s, t) ==
    LET i == FirstIdx(s, t)
    IN IF i = 0 THEN <<s>>
       ELSE <<SubSeq(s, 1, i - 1)>> \o SplitOn(SubSeq(s, i + 1, Len(s)), t)

RECURSIVE JoinWith(_, _)
\* [&str]::join
JoinWith(parts, t) ==
    IF parts = <<>> THEN <<>>
    ELSE IF Len(parts) = 1 THEN parts[1]
    ELSE parts[1] \o <<t>> \o JoinWith(Tail(parts), t)

\* full.rsplit_once("::").map(|(p, _)| p).unwrap_or("")
RSplitPrior(full) ==
    LET i == LastIdx(full, "::") IN IF i = 0 THEN <<>> ELSE SubSeq(full, 1, i - 1)

\* full.rsplit_once("::").map(|(_, n)| n).unwrap_or(full)
RSplitName(full) ==
    LET i == LastIdx(full, "::") IN IF i = 0 THEN full ELSE SubSeq(full, i + 1, Len(full))

\* Path::parent of a relative file path
PathParent(f) ==
    LET i == LastIdx(f, "/") IN IF i = 0 THEN <<>> ELSE SubSeq(f, 1, i - 1)

RECURSIVE Flatten(_)
\* the concatenation of a sequence of sequences
Flatten(ss) == IF ss = <<>> THEN <<>> ELSE Head(ss) \o Flatten(Tail(ss))

\* Iterator::max_by_key, keys[i] being the key of cands[i]: the last element
\* with the greatest key
MaxByKey(cands, keys) ==
    LET best == CHOOSE i \in 1..Len(cands) :
                    /\ \A j \in 1..Len(cands) : keys[j] <= keys[i]
                    /\ \A j \in (i + 1)..Len(cands) : keys[j] < keys[i]
    IN cands[best]

Max(S) == CHOOSE x \in S : \A y \in S : y <= x

(***************************************************************************)
(* Symbols (ir.rs) and the symbol index (ir/reference.rs).                 *)
(* A Symbol is [id, name, kind, file, start_line, end_line, language]; the *)
(* index is its `symbols` vector: by_name and by_file are that vector      *)
(* filtered, in the same order.                                            *)
(***************************************************************************)
\* the kind tag of SymbolId::new and of kind_to_str (ir.rs:37-44, cache.rs:614-623)
KindToStr(kind) ==
    CASE kind = "function" -> "fn"
      [] kind = "method" -> "method"
      [] kind = "struct" -> "struct"
      [] kind = "enum" -> "enum"
      [] kind = "trait" -> "trait"
      [] kind = "module" -> "mod"

\* format!("{}:{}:{}:{}:{}", lang, file, k, name, start_line), kept as its five fields
SymbolIdNew(lang, file, kind, name, start_line) ==
    <<lang, file, KindToStr(kind), name, start_line>>

\* by_file.get(file)?.iter().find(|s| start <= line && line <= end)
EnclosingSymbol(index, file, line) ==
    LET inFile(s) == s.file = file
        holds(s) == s.start_line <= line /\ line <= s.end_line
        hits == SelectSeq(SelectSeq(index, inFile), holds)
    IN IF hits = <<>> THEN <<>> ELSE <<hits[1]>>

\* a variant that lets every kind through
IsCallableAnyKind(s) == TRUE

\* matches!(kind, SymbolKind::Function | SymbolKind::Method) (impact.rs:138, 157)
IsCallable(s) == s.kind \in {"function", "method"}

(***************************************************************************)
(* The reference resolver (impact.rs:69-269).  An import map is a set of   *)
(* [fam, key, val]: fam is "alias" for a plain key and "glob", "export",   *)
(* "export_glob" for the keys that start with __glob__, __export__ and     *)
(* __export_glob__; key is the rest of the key and val the value.          *)
(***************************************************************************)
\* number of aggregator hops followed (`for _ in 0..10`)
MaxHops == 10

ImportGet(imports, fam, key) ==
    LET hits == {e \in imports : e.fam = fam /\ e.key = key}
    IN IF hits = {} THEN <<>> ELSE <<(CHOOSE e \in hits : TRUE).val>>

ImportVals(imports, fam) == {e.val : e \in {x \in imports : x.fam = fam}}

\* file_matches_module_path (impact.rs:202-216)
FileMatchesModulePath(file, module_path) ==
    /\ module_path # <<>>
    /\ LET base == ReplaceTok(module_path, "::", "/")
       IN \/ EndsWith(file, base \o <<".rs">>)
          \/ EndsWith(file, base \o <<".rb">>)
          \/ EndsWith(file, base \o <<".js">>)
          \/ EndsWith(file, base \o <<".ts">>)
          \/ EndsWith(file, base \o <<".tsx">>)
          \/ EndsWith(file, base \o <<"/", "index", ".js">>)
          \/ EndsWith(file, base \o <<"/", "index", ".ts">>)
          \/ EndsWith(file, base \o <<"/", "index", ".tsx">>)
          \/ EndsWith(file, base \o <<"/", "mod", ".rs">>)

\* module_path_for_file (impact.rs:236-254)
ModulePathForFile(f) ==
    IF \/ EndsWith(f, <<"/", "mod", ".rs">>) \/ EndsWith(f, <<"/", "lib", ".rs">>)
       \/ EndsWith(f, <<"/", "main", ".rs">>)
       \/ EndsWith(f, <<"/", "index", ".js">>) \/ EndsWith(f, <<"/", "index", ".ts">>)
       \/ EndsWith(f, <<"/", "index", ".tsx">>)
    THEN ReplaceTok(PathParent(f), "/", "::")
    ELSE IF \E ext \in {".rs", ".rb", ".js", ".ts", ".tsx"} : EndsWith(f, <<ext>>)
    THEN ReplaceTok(TrimEnd(TrimEnd(TrimEnd(TrimEnd(TrimEnd(f, <<".rs">>), <<".rb">>),
                                            <<".js">>), <<".ts">>), <<".tsx">>), "/", "::")
    ELSE ReplaceTok(f, "/", "::")

RECURSIVE SuperLoop(_, _)
\* `while rem.starts_with("super::") { base.pop(); rem = rem.trim_start_matches("super::") }`
SuperLoop(base, rem) ==
    IF StartsWith(rem, <<"super", "::">>)
    THEN SuperLoop(IF base # <<>> THEN SubSeq(base, 1, Len(base) - 1) ELSE base,
                   TrimStart(rem, <<"super", "::">>))
    ELSE [base |-> base, rem |-> rem]

\* expand_relative_path (impact.rs:256-269)
ExpandRelativePath(current_mod, path) ==
    IF StartsWith(path, <<"crate", "::">>) THEN TrimStart(path, <<"crate", "::">>)
    ELSE LET nonEmpty(x) == x # <<>>
             base0 == SelectSeq(SplitOn(current_mod, "::"), nonEmpty)
             rem0 == IF StartsWith(path, <<"self", "::">>)
                     THEN TrimStart(path, <<"self", "::">>) ELSE path
             r == SuperLoop(base0, rem0)
         IN IF r.rem = <<>> THEN JoinWith(r.base, "::")
            ELSE IF r.base = <<>> THEN r.rem
            ELSE JoinWith(r.base, "::") \o <<"::">> \o r.rem

\* normalize_qualifier_with_imports (impact.rs:218-234): always Some
NormalizeQualifierWithImports(qual, imports, from_mod) ==
    LET q2 == ReplaceTok(qual, ".", "::")
        parts == SplitOn(q2, "::")
        mapped == ImportGet(imports, "alias", parts[1])
    IN IF mapped # <<>>
       THEN <<ExpandRelativePath(from_mod,
                  IF Len(parts) > 1
                  THEN mapped[1] \o <<"::">> \o JoinWith(Tail(parts), "::")
                  ELSE mapped[1])>>
       ELSE <<ExpandRelativePath(from_mod, q2)>>

(***************************************************************************)
(* The workspace: three TypeScript files, each with the contents it may    *)
(* hold.  What the analyzer returns for a content is tabulated below.      *)
(*   main.ts      m1: import { Baz } from './mod/agg'                      *)
(*                    function f(){ Baz(); }                               *)
(*                m2: function f(){ bar(); }                               *)
(*   mod/agg.ts   a1: export { bar as Baz } from './real'                  *)
(*   mod/real.ts  r1: export function bar(): void {}                       *)
(*                r2: (an empty line) export function bar(): void {}       *)
(***************************************************************************)
Paths == {"main.ts", "mod/agg.ts", "mod/real.ts"}

\* the paths in string order (to_update.sort()), also taken as the walker's order
PathOrder == <<"main.ts", "mod/agg.ts", "mod/real.ts">>

PathText(p) ==
    CASE p = "main.ts" -> <<"main", ".ts">>
      [] p = "mod/agg.ts" -> <<"mod", "/", "agg", ".ts">>
      [] p = "mod/real.ts" -> <<"mod", "/", "real", ".ts">>
      [] p = "app/a.ts" -> <<"app", "/", "a", ".ts">>
      [] p = "lib/x.ts" -> <<"lib", "/", "x", ".ts">>
      [] p = "lib/y.ts" -> <<"lib", "/", "y", ".ts">>
      [] p = "app/a/y.ts" -> <<"app", "/", "a", "/", "y", ".ts">>
      [] p = "dist/generated.js" -> <<"dist", "/", "generated", ".js">>
      [] p = "src/main.js" -> <<"src", "/", "main", ".js">>

ContentsOf(p) ==
    CASE p = "main.ts" -> {"m1", "m2"}
      [] p = "mod/agg.ts" -> {"a1"}
      [] p = "mod/real.ts" -> {"r1", "r2"}

\* guess_lang_from_ext (cache.rs:599-612); SpecTsAnalyzer::language agrees for .ts
GuessLangFromExt(p) ==
    LET t == PathText(p)
    IN CASE EndsWith(t, <<".rs">>) -> "rust"
         [] EndsWith(t, <<".rb">>) -> "ruby"
         [] EndsWith(t, <<".js">>) -> "javascript"
         [] EndsWith(t, <<".ts">>) -> "typescript"
         [] EndsWith(t, <<".tsx">>) -> "tsx"
         [] OTHER -> "unknown"

Sym(p, kind, name, sl, el) ==
    [id |-> SymbolIdNew(GuessLangFromExt(p), p, kind, name, sl), name |-> name, kind |-> kind,
     file |-> p, start_line |-> sl, end_line |-> el, language |-> GuessLangFromExt(p)]

Call(p, name, line) ==
    [name |-> name, file |-> p, line |-> line, qualifier |-> <<>>, is_method |-> FALSE]

\* LanguageAnalyzer::symbols_in_file; an absent or unreadable file yields nothing
SymbolsInFile(p, c) ==
    CASE c = "m1" -> <<Sym(p, "function", "f", 2, 2)>>
      [] c = "m2" -> <<Sym(p, "function", "f", 1, 1)>>
      [] c = "r1" -> <<Sym(p, "function", "bar", 1, 1)>>
      [] c = "r2" -> <<Sym(p, "function", "bar", 2, 2)>>
      [] OTHER -> <<>>

\* LanguageAnalyzer::unresolved_refs
UnresolvedRefs(p, c) ==
    CASE c = "m1" -> <<Call(p, "Baz", 2)>>
      [] c = "m2" -> <<Call(p, "bar", 1)>>
      [] OTHER -> <<>>

\* LanguageAnalyzer::imports_in_file (ts_spec.rs:309-443)
ImportsInFile(p, c) ==
    CASE c = "m1" ->
           {[fam |-> "alias", key |-> <<"Baz">>, val |-> <<"mod", "/", "agg", "::", "Baz">>],
            [fam |-> "glob", key |-> <<"mod", "/", "agg">>, val |-> <<"mod", "/", "agg">>],
            [fam |-> "glob", key |-> <<"mod", "/", "agg", "/", "index">>,
             val |-> <<"mod", "/", "agg", "/", "index">>]}
      [] c = "a1" ->
           {[fam |-> "export", key |-> <<"Baz">>, val |-> <<"mod", "/", "real", "::", "bar">>],
            [fam |-> "export_glob", key |-> <<"mod", "/", "real">>,
             val |-> <<"mod", "/", "real">>],
            [fam |-> "export_glob", key |-> <<"mod", "/", "real", "/", "index">>,
             val |-> <<"mod", "/", "real", "/", "index">>]}
      [] OTHER -> {}

\* a variant without the bonus for a method at a member call
ScoreCandidateNoMethodBonus(from_file, qualifier, imported_prefix, cand, call_is_method) ==
    (IF cand.file = from_file THEN 30 ELSE 0)
    + (IF PathParent(PathText(cand.file)) = PathParent(PathText(from_file)) THEN 10 ELSE 0)
    + (IF qualifier # <<>> /\ FileMatchesModulePath(PathText(cand.file), qualifier[1])
       THEN 20 ELSE 0)
    + (IF imported_prefix # <<>> /\ imported_prefix[1] # <<>>
          /\ FileMatchesModulePath(PathText(cand.file), imported_prefix[1])
       THEN 15 ELSE 0)
    + (IF call_is_method
       THEN (IF cand.language = "ruby" /\ cand.kind = "function" THEN 20 ELSE 0)
       ELSE (IF cand.kind = "function" THEN 5 ELSE 0))

\* score_candidate (impact.rs:186-200); qualifier and imported_prefix are Options
ScoreCandidate(from_file, qualifier, imported_prefix, cand, call_is_method) ==
    (IF cand.file = from_file THEN 30 ELSE 0)
    + (IF PathParent(PathText(cand.file)) = PathParent(PathText(from_file)) THEN 10 ELSE 0)
    + (IF qualifier # <<>> /\ FileMatchesModulePath(PathText(cand.file), qualifier[1])
       THEN 20 ELSE 0)
    + (IF imported_prefix # <<>> /\ imported_prefix[1] # <<>>
          /\ FileMatchesModulePath(PathText(cand.file), imported_prefix[1])
       THEN 15 ELSE 0)
    + (IF call_is_method
       THEN (IF cand.kind = "method" THEN 25 ELSE 0)
            + (IF cand.language = "ruby" /\ cand.kind = "function" THEN 20 ELSE 0)
       ELSE (IF cand.kind = "function" THEN 5 ELSE 0))

\* the aggregator file for a prefix (impact.rs:108-114): the keys of file_imports that
\* match it, index files first; the hash map's order decides among equals
AggFile(file_imports, ip) ==
    LET hits == {f \in DOMAIN file_imports : FileMatchesModulePath(PathText(f), ip)}
        isIndex(f) == \/ EndsWith(PathText(f), <<"/", "index", ".js">>)
                      \/ EndsWith(PathText(f), <<"/", "index", ".ts">>)
                      \/ EndsWith(PathText(f), <<"/", "index", ".tsx">>)
        first == IF \E f \in hits : isIndex(f) THEN {f \in hits : isIndex(f)} ELSE hits
    IN IF hits = {} THEN <<>> ELSE <<CHOOSE f \in first : TRUE>>

RECURSIVE Chase(_, _, _, _)
\* the re-export loop (impact.rs:103-126) from st = [has, ip, tn, globs], with
\* `hops` rounds left
Chase(file_imports, st, visited, hops) ==
    IF hops = 0 \/ st.ip \in visited THEN st
    ELSE LET agg == AggFile(file_imports, st.ip)
         IN IF agg = <<>> THEN st
            ELSE LET exp_map == file_imports[agg[1]]
                     globs2 == st.globs \cup ImportVals(exp_map, "export_glob")
                     real == ImportGet(exp_map, "export", st.tn)
                 IN IF real = <<>> THEN [st EXCEPT !.globs = globs2]
                    ELSE Chase(file_imports,
                               [has |-> TRUE, ip |-> RSplitPrior(real[1]),
                                tn |-> RSplitName(real[1]), globs |-> globs2],
                               visited \cup {st.ip}, hops - 1)

\* file_imports.get(&r.file).cloned().unwrap_or_default() (impact.rs:79)
ImportsOf(file_imports, file) ==
    IF file \in DOMAIN file_imports THEN file_imports[file] ELSE {}

\* the qualifier after normalisation (impact.rs:81-85)
QualifierOf(r, imports, from_mod) ==
    LET norm_qual == IF r.qualifier = <<>> THEN <<>>
                     ELSE NormalizeQualifierWithImports(r.qualifier[1], imports, from_mod)
    IN IF norm_qual # <<>> THEN norm_qual ELSE r.qualifier

\* imported_prefix before the loop (impact.rs:92-98)
PrefixOf(from_mod, prior) ==
    IF \/ Contains(prior, <<"self", "::">>)
       \/ Contains(prior, <<"super", "::">>)
       \/ Contains(prior, <<"crate", "::">>)
    THEN ExpandRelativePath(from_mod, prior) ELSE prior

\* imported_prefix (has, ip), target_name (tn) and glob_prefixes (globs) when the
\* candidates are looked up (impact.rs:86-126); full is imports.get(&r.name)
TargetOf(r, file_imports, globs, from_mod, full) ==
    IF full = <<>>
    THEN [has |-> FALSE, ip |-> <<>>, tn |-> <<r.name>>, globs |-> globs]
    ELSE Chase(file_imports,
               [has |-> TRUE, ip |-> PrefixOf(from_mod, RSplitPrior(full[1])),
                tn |-> RSplitName(full[1]), globs |-> globs],
               {}, MaxHops)

\* the key of both max_by_key calls (impact.rs:139-146, 161-168)
CandScore(r, qualifier, st, c) ==
    Max({ScoreCandidate(r.file, qualifier, IF st.has THEN <<st.ip>> ELSE <<>>, c, r.is_method)}
        \cup {ScoreCandidate(r.file, qualifier, <<gp>>, c, r.is_method) : gp \in st.globs})

\* a variant that drops the other kinds before it looks at the qualifier
NamedCandsCallableFirst(index, qualifier, st) ==
    LET callable(s) == <<s.name>> = st.tn /\ IsCallable(s)
        callableInQual(s) ==
            callable(s) /\ FileMatchesModulePath(PathText(s.file), qualifier[1])
    IN IF qualifier = <<>> \/ SelectSeq(index, callableInQual) = <<>>
       THEN SelectSeq(index, callable)
       ELSE SelectSeq(index, callableInQual)

\* the callable candidates of the target's name (impact.rs:130-138)
NamedCands(index, qualifier, st) ==
    LET named(s) == <<s.name>> = st.tn
        inQual(s) == named(s) /\ FileMatchesModulePath(PathText(s.file), qualifier[1])
        callable(s) == named(s) /\ IsCallable(s)
        callableInQual(s) == inQual(s) /\ IsCallable(s)
    IN IF qualifier = <<>> \/ SelectSeq(index, inQual) = <<>>
       THEN SelectSeq(index, callable)
       ELSE SelectSeq(index, callableInQual)

\* the callable symbols of the hinted modules (impact.rs:151-159)
HintedCands(index, qualifier, st) ==
    LET hints == (IF qualifier # <<>> THEN {qualifier[1]} ELSE {})
                 \cup (IF st.has /\ st.ip # <<>> THEN {st.ip} ELSE {})
                 \cup st.globs
        inHints(s) == IsCallable(s)
                      /\ \E mp \in hints : FileMatchesModulePath(PathText(s.file), mp)
    IN SelectSeq(index, inHints)

\* a variant that asks the hinted modules before the candidates of the name
BestOfHintedFirst(r, qualifier, st, named, hinted) ==
    LET Scores(cands) == [i \in 1..Len(cands) |-> CandScore(r, qualifier, st, cands[i])]
    IN IF hinted # <<>> THEN <<MaxByKey(hinted, Scores(hinted))>>
       ELSE IF named # <<>> THEN <<MaxByKey(named, Scores(named))>>
       ELSE <<>>

\* best (impact.rs:129-171): the last of the best-scored candidates
BestOf(r, qualifier, st, named, hinted) ==
    LET Scores(cands) == [i \in 1..Len(cands) |-> CandScore(r, qualifier, st, cands[i])]
    IN IF named # <<>> THEN <<MaxByKey(named, Scores(named))>>
       ELSE IF hinted # <<>> THEN <<MaxByKey(hinted, Scores(hinted))>>
       ELSE <<>>

\* a variant that pushes a reference also when no symbol encloses the call site
MakeReferenceUnenclosed(r, from_sym, best) ==
    IF best = <<>> THEN <<>>
    ELSE <<[from |-> IF from_sym = <<>> THEN best[1].id ELSE from_sym[1].id,
            to |-> best[1].id, file |-> r.file, line |-> r.line]>>

\* `let Some(from_sym) ... else continue` and the push (impact.rs:77, 173-181)
MakeReference(r, from_sym, best) ==
    IF from_sym = <<>> \/ best = <<>> THEN <<>>
    ELSE <<[from |-> from_sym[1].id, to |-> best[1].id, file |-> r.file, line |-> r.line]>>

\* the candidates are looked up for the target st (impact.rs:128-171)
ResolveTarget(index, r, qualifier, st) ==
    MakeReference(r, EnclosingSymbol(index, r.file, r.line),
                  BestOf(r, qualifier, st, NamedCands(index, qualifier, st),
                         HintedCands(index, qualifier, st)))

\* the target is worked out from the file's imports (impact.rs:79-126)
ResolveImported(index, r, file_imports, imports, from_mod, qualifier) ==
    ResolveTarget(index, r, qualifier,
                  TargetOf(r, file_imports, ImportVals(imports, "glob"), from_mod,
                           IF qualifier = <<>> THEN ImportGet(imports, "alias", <<r.name>>)
                           ELSE <<>>))

\* one round of `for r in urefs` (impact.rs:75-182): no or one Reference
ResolveOne(index, r, file_imports) ==
    ResolveImported(index, r, file_imports, ImportsOf(file_imports, r.file),
                    ModulePathForFile(PathText(r.file)),
                    QualifierOf(r, ImportsOf(file_imports, r.file),
                                ModulePathForFile(PathText(r.file))))

\* resolve_references (impact.rs:69-184)
ResolveReferences(index, urefs, file_imports) ==
    Flatten([i \in 1..Len(urefs) |-> ResolveOne(index, urefs[i], file_imports)])

(***************************************************************************)
(* The store (cache.rs).  A files row is keyed by its path (path is UNIQUE *)
(* and a row's id never changes while rows refer to it); symbols and edges *)
(* are kept in rowid order and name their file by path.  mtime is written  *)
(* but never read, and is left out.                                        *)
(***************************************************************************)
\* longest path list handed to update_paths
MaxPaths == 1

\* most build_all, update_paths and verify calls and workspace changes in a run
MaxSteps == 3

\* const SCHEMA_VERSION (cache.rs:39)
SCHEMA_VERSION == "v1"

\* no store file: what clear leaves, and what open finds on a first run
NoDb == [files |-> [p \in Paths |-> <<>>], symbols |-> <<>>, edges |-> <<>>, meta |-> <<>>]

\* Path::is_file
IsFile(f, p) == f[p] # "absent"

\* file_digest (cache.rs:579-588): the content stands for its blake3 digest
FileDigest(f, p) == IF IsFile(f, p) THEN f[p] ELSE ""

\* list_workspace_files (cache.rs:390-415)
ListWorkspaceFiles(f) ==
    LET isFile(p) == IsFile(f, p) IN SelectSeq(PathOrder, isFile)

\* the match on kind_s in load_index (cache.rs:527-535)
KindFromStr(k) ==
    CASE k \in {"fn", "function"} -> "function"
      [] k = "method" -> "method"
      [] k = "struct" -> "struct"
      [] k = "enum" -> "enum"
      [] k = "trait" -> "trait"
      [] k \in {"mod", "module"} -> "module"
      [] OTHER -> "function"

\* the parameters of INSERT INTO symbols (cache.rs:220-230, 336-346)
SymRow(s) ==
    [sid |-> s.id, file |-> s.file, name |-> s.name, kind |-> KindToStr(s.kind),
     start_line |-> s.start_line, end_line |-> s.end_line, language |-> s.language]

\* the Symbol that load_index makes of a row (cache.rs:536-546)
RowSym(r) ==
    [id |-> r.sid, name |-> r.name, kind |-> KindFromStr(r.kind), file |-> r.file,
     start_line |-> r.start_line, end_line |-> r.end_line, language |-> r.language]

\* the parameters of INSERT INTO edges (cache.rs:248, 374-380)
EdgeRow(e) == [from_sid |-> e.from, to_sid |-> e.to, file |-> e.file, line |-> e.line]

\* load_index (cache.rs:517-553): symbols JOIN files WHERE files.present=1
LoadIndex(d) ==
    LET joined(r) == d.files[r.file] # <<>> /\ d.files[r.file][1].present = 1
        rows == SelectSeq(d.symbols, joined)
    IN [i \in 1..Len(rows) |-> RowSym(rows[i])]

\* the edges query of load_graph (cache.rs:495-513): edges JOIN files
LoadEdges(d) ==
    LET joined(r) == d.files[r.file] # <<>>
        rows == SelectSeq(d.edges, joined)
    IN [i \in 1..Len(rows) |->
            [from |-> rows[i].from_sid, to |-> rows[i].to_sid, file |-> rows[i].file,
             line |-> rows[i].line]]

\* load_graph (cache.rs:492-515) when nothing commits between its two queries
LoadGraph(d) == [index |-> LoadIndex(d), edges |-> LoadEdges(d)]

\* stats (cache.rs:165-179)
Stats(d) ==
    [files |-> Cardinality({p \in Paths : d.files[p] # <<>> /\ d.files[p][1].present = 1}),
     symbols |-> Len(d.symbols),
     edges |-> Len(d.edges)]

\* init_db (cache.rs:106-163): CREATE TABLE IF NOT EXISTS, then the version is
\* written over whatever was recorded; no row is read or removed
InitDb(d) == [d EXCEPT !.meta = <<SCHEMA_VERSION>>]

\* analyze_paths_parallel (cache.rs:418-449), the three results in path order
AnalyzeSymbols(f, files) == Flatten([i \in 1..Len(files) |-> SymbolsInFile(files[i], f[files[i]])])

AnalyzeUrefs(f, files) == Flatten([i \in 1..Len(files) |-> UnresolvedRefs(files[i], f[files[i]])])

AnalyzeImports(f, files) == [p \in Range(files) |-> ImportsInFile(p, f[p])]

\* the files, symbols and edges build_all inserts (cache.rs:196-250)
BuildAllRows(d, f, index, edges) ==
    LET ofFile(p) == LET in(s) == s.file = p IN SelectSeq(index, in)
        row(p) == IF ofFile(p) # <<>>
                  THEN <<[lang |-> ofFile(p)[1].language, digest |-> FileDigest(f, p),
                          present |-> 1]>>
                  ELSE IF \E i \in 1..Len(edges) : edges[i].file = p
                  THEN <<[lang |-> GuessLangFromExt(p), digest |-> FileDigest(f, p),
                          present |-> 1]>>
                  ELSE <<>>
    IN [files |-> [p \in Paths |-> row(p)],
        symbols |-> [i \in 1..Len(index) |-> SymRow(index[i])],
        edges |-> [i \in 1..Len(edges) |-> EdgeRow(edges[i])],
        meta |-> d.meta]

\* the analysis and resolution of build_all (cache.rs:191-194)
BuildAllRefs(f, files) ==
    ResolveReferences(AnalyzeSymbols(f, files), AnalyzeUrefs(f, files), AnalyzeImports(f, files))

\* build_all (cache.rs:189-254): the store its transaction commits
BuildAllStore(d, f) ==
    BuildAllRows(d, f, AnalyzeSymbols(f, ListWorkspaceFiles(f)),
                 BuildAllRefs(f, ListWorkspaceFiles(f)))

\* a variant of the DELETE FROM symbols that removes nothing
KeepSymbols(rows, p) == rows

\* DELETE FROM symbols WHERE file_id=?1 (cache.rs:331)
DropSymbolsOf(rows, p) == LET other(r) == r.file # p IN SelectSeq(rows, other)

\* a variant of the DELETE FROM edges that removes nothing
KeepEdges(rows, p) == rows

\* DELETE FROM edges WHERE file_id=?1 (cache.rs:332)
DropEdgesOf(rows, p) == LET other(r) == r.file # p IN SelectSeq(rows, other)

\* one round of `for p in paths` in the first transaction (cache.rs:320-349);
\* f is the workspace that the analysis and fs::metadata both saw
UpdateFile(d, f, p) ==
    LET syms == SymbolsInFile(p, f[p])
    IN [d EXCEPT
          !.files[p] = <<[lang |-> GuessLangFromExt(p), digest |-> FileDigest(f, p),
                          present |-> IF IsFile(f, p) THEN 1 ELSE 0]>>,
          !.symbols = DropSymbolsOf(d.symbols, p) \o [i \in 1..Len(syms) |-> SymRow(syms[i])],
          !.edges = DropEdgesOf(d.edges, p)]

RECURSIVE UpdateSymbols(_, _, _)
\* the first transaction of update_paths (cache.rs:317-351)
UpdateSymbols(d, f, paths) ==
    IF paths = <<>> THEN d
    ELSE UpdateSymbols(UpdateFile(d, f, Head(paths)), f, Tail(paths))

\* the edge_stmt.execute calls (cache.rs:373-381)
InsertEdges(d, new) == [d EXCEPT !.edges = d.edges \o [i \in 1..Len(new) |-> EdgeRow(new[i])]]

\* the references of one path, resolved with its own imports only (cache.rs:366-372)
RefsOfPath(index, snap, p) ==
    ResolveReferences(index, UnresolvedRefs(p, snap[p]), [x \in {p} |-> ImportsInFile(p, snap[p])])

\* `for p in paths` over one loaded index (cache.rs:354-382)
RefsOfPaths(index, snap, paths) ==
    Flatten([i \in 1..Len(paths) |-> RefsOfPath(index, snap, paths[i])])

\* a variant of the second transaction that resolves each path before the
\* symbols of the paths listed after it are written
UpdateEdgesOnePhase(d, snap, paths) ==
    LET later(i) == {paths[j] : j \in (i + 1)..Len(paths)} \ {paths[j] : j \in 1..i}
        before(i) == LET known(s) == s.file \notin later(i) IN SelectSeq(LoadIndex(d), known)
    IN InsertEdges(d, Flatten([i \in 1..Len(paths) |->
                                  RefsOfPath(before(i), snap, paths[i])]))

\* the second transaction of update_paths (cache.rs:354-385)
UpdateEdgesStore(d, snap, paths) == InsertEdges(d, RefsOfPaths(LoadIndex(d), snap, paths))

\* update_paths (cache.rs:310-387) run to its end
UpdatePathsStore(d, f, paths) ==
    IF paths = <<>> THEN d ELSE UpdateEdgesStore(UpdateSymbols(d, f, paths), f, paths)

\* a variant of verify's comparison that never looks at the digest
RowDiffersNoDigest(row, f, p) == row.present # 1 \/ row.lang # GuessLangFromExt(p)

\* verify's comparison of a files row with the file (cache.rs:285-294)
RowDiffers(row, f, p) ==
    row.digest # FileDigest(f, p) \/ row.present # 1 \/ row.lang # GuessLangFromExt(p)

\* verify's to_update, sorted and deduplicated (cache.rs:283-306)
ToUpdate(d, f) ==
    LET fs_set == Range(ListWorkspaceFiles(f))
        stale == {p \in fs_set : d.files[p] = <<>> \/ RowDiffers(d.files[p][1], f, p)}
        gone == {p \in Paths \ fs_set : d.files[p] # <<>> /\ d.files[p][1].present = 1}
        listed(p) == p \in stale \cup gone
    IN SelectSeq(PathOrder, listed)

(***************************************************************************)
(* compute_impact                                                          *)
(***************************************************************************)
\* rev.get(cur): the callers of cur, in edge-list order (impact.rs:281-287)
RevNbs(cur) ==
    LET keep(e) == e.to = cur
        es == SelectSeq(refs, keep)
    IN [i \in 1..Len(es) |-> es[i].from]

\* fwd.get(cur): the callees of cur, in edge-list order (impact.rs:280-287)
FwdNbs(cur) ==
    LET keep(e) == e.from = cur
        es == SelectSeq(refs, keep)
    IN [i \in 1..Len(es) |-> es[i].to]

\* the match on opts.direction (impact.rs:295-306)
Neighbours(cur) ==
    CASE direction = "callers" -> RevNbs(cur)
      [] direction = "callees" -> FwdNbs(cur)
      [] direction = "both" -> RevNbs(cur) \o FwdNbs(cur)

\* a variant with the depth test off by one
DepthReachedLate(d) == max_depth # <<>> /\ d > max_depth[1]

\* `if let Some(maxd) = opts.max_depth && d >= maxd { continue; }` (impact.rs:294)
DepthReached(d) == max_depth # <<>> /\ d >= max_depth[1]

\* a variant that keeps the seeds in the output
ImpactedIdsWithSeeds == seen \cap IndexedIds

\* seen minus changed_ids, restricted to by_id (impact.rs:309-314)
ImpactedIds == (seen \ Range(changed)) \cap IndexedIds

\* Symbol.file of the symbols behind the ids: g of dist/generated.js, main and
\* another function of src/main.js, and a symbol of src/main.js the index lost
IdFile(id) == IF id = 1 THEN "dist/generated.js" ELSE "src/main.js"

\* the files in string order
FileOrder == <<"dist/generated.js", "src/main.js">>

\* the ignore_dirs option: the file lies under one of the prefixes
PathIsIgnored(file) == \E d \in ignore_dirs : StartsWith(PathText(file), d)

\* the seeds that are left when those of ignored directories are dropped
Seeds == LET kept(id) == ~PathIsIgnored(IdFile(id)) IN SelectSeq(changed, kept)

\* the ids whose file is not ignored
NotIgnored(ids) == {id \in ids : ~PathIsIgnored(IdFile(id))}

\* a variant that also lists the files of the symbols handed in as changed
ImpactedFilesWithSeeds(ids) ==
    LET has(f) == \E id \in ids \cup Range(changed) : IdFile(id) = f
    IN SelectSeq(FileOrder, has)

\* impacted_files: the files of the impacted symbols, sorted and deduplicated
\* (impact.rs:318-319)
ImpactedFiles(ids) ==
    LET has(f) == \E id \in ids : IdFile(id) = f IN SelectSeq(FileOrder, has)

\* opts.with_edges.unwrap_or(false) (impact.rs:321)
WithEdges == with_edges # <<>> /\ with_edges[1]

\* by_id.keys() filtered by the impacted symbols (impact.rs:322)
KnownIds(ids) == {id \in IndexedIds : id \in ids}

\* a variant that asks for both endpoints in the node set
EdgesWithBothEnds(node_set) ==
    LET keep(e) == e.from \in node_set /\ e.to \in node_set IN SelectSeq(refs, keep)

\* refs.iter().filter(from or to in node_set).cloned().collect() (impact.rs:323-326)
EdgesOf(node_set) ==
    LET keep(e) == e.from \in node_set \/ e.to \in node_set IN SelectSeq(refs, keep)

\* impacted_by_file: the impacted symbols grouped by file, each group sorted and
\* deduplicated (impact.rs:328-330)
ImpactedByFile(ids) ==
    [f \in {IdFile(id) : id \in ids} |-> SortedSeq({id \in ids : IdFile(id) = f})]

\* `for s in changed { q.push_back((s.id, 0)) }` (impact.rs:289-291)
ImpactBegin ==
    /\ ipc = "start"
    /\ q' = [i \in 1..Len(Seeds) |-> <<Seeds[i], 0>>]
    /\ seen' = {}
    /\ ipc' = "bfs"
    /\ UNCHANGED <<refs, changed, direction, max_depth, impacted_symbols>>
    /\ UNCHANGED <<with_edges, ignore_dirs, out>>
    /\ UNCHANGED <<storeVars, readerVars, resolveVars, mapVars, frontVars>>

\* one iteration of `while let Some((cur, d)) = q.pop_front()` (impact.rs:292-307)
ImpactPop ==
    /\ ipc = "bfs"
    /\ q # <<>>
    /\ LET cur == Head(q)[1]
           d == Head(q)[2]
           nbs == Neighbours(cur)
       IN IF cur \in seen
          THEN /\ q' = Tail(q)
               /\ seen' = seen
          ELSE /\ seen' = seen \cup {cur}
               /\ q' = IF DepthReached(d)
                       THEN Tail(q)
                       ELSE Tail(q) \o [i \in 1..Len(nbs) |-> <<nbs[i], d + 1>>]
    /\ UNCHANGED <<refs, changed, direction, max_depth, impacted_symbols, ipc>>
    /\ UNCHANGED <<with_edges, ignore_dirs, out>>
    /\ UNCHANGED <<storeVars, readerVars, resolveVars, mapVars, frontVars>>

\* the loop ends; filter, sort and dedup (impact.rs:309-316)
ImpactFinish ==
    /\ ipc = "bfs"
    /\ q = <<>>
    /\ impacted_symbols' = SortedSeq(NotIgnored(ImpactedIds))
    /\ out' = [changed_symbols |-> Seeds,
               impacted_files |-> ImpactedFiles(NotIgnored(ImpactedIds)),
               edges |-> IF WithEdges
                         THEN EdgesOf(Range(Seeds) \cup KnownIds(NotIgnored(ImpactedIds)))
                         ELSE <<>>,
               impacted_by_file |-> ImpactedByFile(NotIgnored(ImpactedIds))]
    /\ ipc' = "done"
    /\ UNCHANGED <<refs, changed, direction, max_depth, q, seen>>
    /\ UNCHANGED <<with_edges, ignore_dirs>>
    /\ UNCHANGED <<storeVars, readerVars, resolveVars, mapVars, frontVars>>

(***************************************************************************)
(* The store's operations.  A process opens the store and runs build_all,  *)
(* update_paths or verify; the workspace changes between two calls.        *)
(* update_paths commits twice, so it is two steps; a process may die       *)
(* before any commit that is still due.                                    *)
(***************************************************************************)
\* the two workspaces a run may start from
InitialWorkspaces ==
    {[p \in Paths |-> CASE p = "main.ts" -> "m1" [] p = "mod/agg.ts" -> "a1" [] OTHER -> "r1"],
     [p \in Paths |-> CASE p = "main.ts" -> "m2" [] p = "mod/agg.ts" -> "absent" [] OTHER -> "r1"]}

\* a store file that another version of the program left behind: the version it
\* recorded is not SCHEMA_VERSION and its kind column holds the long tag that
\* load_index still accepts (cache.rs:528)
LegacyDb ==
    [NoDb EXCEPT
       !.files["mod/real.ts"] = <<[lang |-> "typescript", digest |-> "r1", present |-> 1]>>,
       !.symbols = <<[sid |-> SymbolIdNew("typescript", "mod/real.ts", "function", "bar", 1),
                      file |-> "mod/real.ts", name |-> "bar", kind |-> "function",
                      start_line |-> 1, end_line |-> 1, language |-> "typescript"]>>,
       !.meta = <<"v0">>]

\* the path lists update_paths is called with
PathLists == UNION {[1..n -> Paths] : n \in 0..MaxPaths}

NoPend == [op |-> "none", paths |-> <<>>, snap |-> [p \in Paths |-> "absent"]]

NoHist == [tag |-> "none", paths |-> <<>>, expect |-> <<>>, ret0 |-> <<>>]

\* open (cache.rs:87-95)
Open ==
    /\ pc = "idle"
    /\ ~opened
    /\ opened' = TRUE
    /\ db' = InitDb(db)
    /\ UNCHANGED <<fs, pc, pend, ret, steps, preDb, hist, legacy>>
    /\ UNCHANGED <<impactVars, readerVars, resolveVars, mapVars, frontVars>>

\* clear (cache.rs:181-187): the store file is removed
Clear ==
    /\ pc = "idle"
    /\ db # NoDb
    /\ db' = NoDb
    /\ opened' = FALSE
    /\ legacy' = {}
    /\ hist' = NoHist
    /\ UNCHANGED <<fs, pc, pend, ret, steps, preDb>>
    /\ UNCHANGED <<impactVars, readerVars, resolveVars, mapVars, frontVars>>

\* build_all up to its commit (cache.rs:189-250): the analysis is done
BuildAllBegin ==
    /\ pc = "idle"
    /\ opened
    /\ steps < MaxSteps
    /\ steps' = steps + 1
    /\ pc' = "build"
    /\ pend' = [op |-> "build", paths |-> <<>>, snap |-> fs]
    /\ preDb' = db
    /\ hist' = [tag |-> "built", paths |-> <<>>, expect |-> <<BuildAllStore(db, fs)>>,
                ret0 |-> ret]
    /\ rBase' = IF rpc = "edges" THEN rBase \cup {BuildAllStore(db, fs)} ELSE rBase
    /\ UNCHANGED <<fs, db, opened, ret, legacy>>
    /\ UNCHANGED <<impactVars, rpc, rIndex, rView, resolveVars, mapVars, frontVars>>

\* tx.commit() and the stats build_all returns (cache.rs:251-253)
BuildAllCommit ==
    /\ pc = "build"
    /\ db' = BuildAllStore(db, pend.snap)
    /\ ret' = <<Stats(db')>>
    /\ pc' = "idle"
    /\ legacy' = {}
    /\ UNCHANGED <<fs, opened, pend, steps, preDb, hist>>
    /\ UNCHANGED <<impactVars, readerVars, resolveVars, mapVars, frontVars>>

\* update_paths up to the commit of its first transaction (cache.rs:310-351); an
\* empty list returns the stats at once
StartUpdate(op, paths, tag) ==
    /\ pc = "idle"
    /\ opened
    /\ steps < MaxSteps
    /\ steps' = steps + 1
    /\ preDb' = db
    /\ pend' = [op |-> op, paths |-> paths, snap |-> fs]
    /\ IF paths = <<>>
       THEN /\ db' = db
            /\ pc' = "idle"
            /\ ret' = <<Stats(db)>>
       ELSE /\ db' = UpdateSymbols(db, fs, paths)
            /\ pc' = "edges"
            /\ ret' = ret
    /\ legacy' = legacy \ Range(paths)
    /\ hist' = IF tag = "recovered"
               THEN [hist EXCEPT !.tag = tag]
               ELSE [tag |-> tag, paths |-> paths,
                     expect |-> <<UpdatePathsStore(db, fs, paths)>>, ret0 |-> ret]
    /\ rBase' = IF rpc = "edges" THEN rBase \cup {UpdatePathsStore(db, fs, paths)} ELSE rBase
    /\ UNCHANGED <<fs, opened>>
    /\ UNCHANGED <<impactVars, rpc, rIndex, rView, resolveVars, mapVars, frontVars>>

\* update_paths(paths), called by the engine with a diff's files
UpdatePathsBegin ==
    \E paths \in PathLists :
        StartUpdate("update", paths,
                    IF hist.tag = "touched" /\ paths = hist.paths THEN "incr"
                    ELSE IF hist.tag \in {"upd", "incr", "rep"} /\ paths = hist.paths THEN "rep"
                    ELSE "upd")

\* verify (cache.rs:259-308): to_update is computed and handed to update_paths
Verify ==
    StartUpdate("verify", ToUpdate(db, fs),
                IF hist.tag = "crashed" THEN "recovered" ELSE "verified")

\* load_index and the second transaction of update_paths (cache.rs:354-386)
UpdateEdges ==
    /\ pc = "edges"
    /\ db' = UpdateEdgesStore(db, pend.snap, pend.paths)
    /\ ret' = <<Stats(db')>>
    /\ pc' = "idle"
    /\ UNCHANGED <<fs, opened, pend, steps, preDb, hist, legacy>>
    /\ UNCHANGED <<impactVars, readerVars, resolveVars, mapVars, frontVars>>

\* the process dies with a commit still due; the store keeps what was committed
Crash ==
    /\ pc # "idle"
    /\ pc' = "idle"
    /\ opened' = FALSE
    /\ hist' = [hist EXCEPT !.tag = "crashed"]
    /\ UNCHANGED <<fs, db, pend, ret, steps, preDb, legacy>>
    /\ UNCHANGED <<impactVars, readerVars, resolveVars, mapVars, frontVars>>

\* a file is created or its content replaced, between two calls
WriteFile ==
    \E p \in Paths : \E c \in ContentsOf(p) :
        /\ pc = "idle"
        /\ fs[p] # c
        /\ steps < MaxSteps
        /\ steps' = steps + 1
        /\ fs' = [fs EXCEPT ![p] = c]
        /\ hist' = IF hist.tag = "built" /\ IsFile(fs, p)
                   THEN [NoHist EXCEPT !.tag = "touched", !.paths = <<p>>]
                   ELSE NoHist
        /\ UNCHANGED <<db, opened, pc, pend, ret, preDb, legacy>>
        /\ UNCHANGED <<impactVars, readerVars, resolveVars, mapVars, frontVars>>

\* a file is removed, between two calls
DeleteFile ==
    \E p \in Paths :
        /\ pc = "idle"
        /\ IsFile(fs, p)
        /\ steps < MaxSteps
        /\ steps' = steps + 1
        /\ fs' = [fs EXCEPT ![p] = "absent"]
        /\ hist' = NoHist
        /\ UNCHANGED <<db, opened, pc, pend, ret, preDb, legacy>>
        /\ UNCHANGED <<impactVars, readerVars, resolveVars, mapVars, frontVars>>

\* the first query of a reader's load_graph: load_index (cache.rs:493)
ReadIndex ==
    /\ rpc = "idle"
    /\ db.meta # <<>>
    /\ rIndex' = LoadIndex(db)
    /\ rView' = <<>>
    /\ rBase' = IF pc = "idle" THEN {db} ELSE {preDb, hist.expect[1]}
    /\ rpc' = "edges"
    /\ UNCHANGED <<impactVars, storeVars, resolveVars, mapVars, frontVars>>

\* the second query of the reader's load_graph: the edges (cache.rs:495-514)
ReadEdges ==
    /\ rpc = "edges"
    /\ rView' = <<[index |-> rIndex, edges |-> LoadEdges(db)]>>
    /\ rpc' = "idle"
    /\ UNCHANGED <<rIndex, rBase>>
    /\ UNCHANGED <<impactVars, storeVars, resolveVars, mapVars, frontVars>>

(***************************************************************************)
(* resolve_references, one round of its loop at a time.  The inputs are    *)
(* what the TypeScript analyzer returns for four files:                    *)
(*   app/a.ts   1: class A {                                               *)
(*              2:   m() { g(); }                                          *)
(*              3: }                                                       *)
(*              4: function f(x) { x.m(); h(); y.g(); y.k(); }             *)
(*              5: function m() {}                                         *)
(*              6: g();                                                    *)
(*              7: import * as y from '../lib/y'    (in one variant)       *)
(*   lib/x.ts   1: export function g() { g(); }                            *)
(*              2: export function k() {}                                  *)
(*   lib/y.ts   1: export function g() {}                                  *)
(*              2: export class h {}                                       *)
(*   app/a/y.ts 1: export function g() {}                                  *)
(*              2: export class k {}                                       *)
(* Declarations are captured in document order, a class before its         *)
(* members; the files reach SymbolIndex::build in the walker's order.      *)
(***************************************************************************)
\* longest list of call sites handed to resolve_references
MaxUrefs == 2

ResolveFiles == {"app/a.ts", "lib/x.ts", "lib/y.ts", "app/a/y.ts"}

\* symbols_in_file for the four files
ResolveSymbols(p) ==
    CASE p = "app/a.ts" -> <<Sym(p, "struct", "A", 1, 3), Sym(p, "method", "m", 2, 2),
                             Sym(p, "function", "f", 4, 4), Sym(p, "function", "m", 5, 5)>>
      [] p = "lib/x.ts" -> <<Sym(p, "function", "g", 1, 1), Sym(p, "function", "k", 2, 2)>>
      [] p = "lib/y.ts" -> <<Sym(p, "function", "g", 1, 1), Sym(p, "struct", "h", 2, 2)>>
      [] p = "app/a/y.ts" -> <<Sym(p, "function", "g", 1, 1), Sym(p, "struct", "k", 2, 2)>>

\* a member call: the capture holds a member_expression
MemberCall(p, name, line, qualifier) ==
    [name |-> name, file |-> p, line |-> line, qualifier |-> qualifier, is_method |-> TRUE]

\* unresolved_refs for the four files
ResolveSites ==
    {Call("app/a.ts", "g", 2), MemberCall("app/a.ts", "m", 4, <<>>),
     MemberCall("app/a.ts", "m", 4, <<<<"x">>>>), Call("app/a.ts", "h", 4),
     Call("app/a.ts", "g", 6), Call("lib/x.ts", "g", 1),
     MemberCall("app/a.ts", "g", 4, <<<<"y">>>>), MemberCall("app/a.ts", "k", 4, <<<<"y">>>>)}

\* imports_in_file for `import * as y from '../lib/y'` in app/a.ts
NamespaceImport ==
    {[fam |-> "glob", key |-> <<"lib", "/", "y">>, val |-> <<"lib", "/", "y">>],
     [fam |-> "glob", key |-> <<"lib", "/", "y", "/", "index">>,
      val |-> <<"lib", "/", "y", "/", "index">>],
     [fam |-> "alias", key |-> <<"y">>, val |-> <<"lib", "/", "y">>]}

\* file_imports as build_all passes it (every file, with or without the import
\* line) and as update_paths passes it (the one file)
ResolveImportMaps ==
    {[p \in ResolveFiles |-> {}],
     [p \in ResolveFiles |-> IF p = "app/a.ts" THEN NamespaceImport ELSE {}],
     [p \in {"app/a.ts"} |-> NamespaceImport]}

\* the orders in which the walker may list the files
ResolveOrders ==
    {o \in [1..Cardinality(ResolveFiles) -> ResolveFiles] :
        \A i, j \in DOMAIN o : o[i] = o[j] => i = j}

\* analyze_paths_parallel and SymbolIndex::build over the files in order o
IndexOf(o) == Flatten([i \in 1..Len(o) |-> ResolveSymbols(o[i])])

UrefLists == UNION {[1..n -> ResolveSites] : n \in 0..MaxUrefs}

\* the number of rounds of `for r in urefs` that have run
RoundsDone == IF rsLast = <<>> THEN 0 ELSE rsLast[1].i

\* one round of `for r in urefs` (impact.rs:75-182)
ResolveRound ==
    /\ rspc = "loop"
    /\ RoundsDone < Len(rsUrefs)
    /\ LET r == rsUrefs[RoundsDone + 1]
           made == ResolveOne(rsIndex, r, rsImports)
       IN /\ rsOut' = rsOut \o made
          /\ rsLast' = <<[i |-> RoundsDone + 1, r |-> r, made |-> made]>>
    /\ UNCHANGED <<rsIndex, rsUrefs, rsImports, rspc>>
    /\ UNCHANGED <<impactVars, storeVars, readerVars, mapVars, frontVars>>

\* the loop is over and `out` is returned (impact.rs:183)
ResolveReturn ==
    /\ rspc = "loop"
    /\ RoundsDone = Len(rsUrefs)
    /\ rspc' = "done"
    /\ UNCHANGED <<rsIndex, rsUrefs, rsImports, rsOut, rsLast>>
    /\ UNCHANGED <<impactVars, storeVars, readerVars, mapVars, frontVars>>

(***************************************************************************)
(* compute_changed_symbols (mapping.rs).  A FileChanges is [old_path,      *)
(* new_path, changes] and a Change is [kind, old_line, new_line], as       *)
(* parse_unified_diff makes them: an added line has a new_line only, a     *)
(* removed line an old_line only, a context line both.  The working tree   *)
(* holds app/a.ts and lib/x.ts as above; old.ts is not in it.              *)
(***************************************************************************)
\* most FileChanges records in a diff
MaxDiffs == 2

Added(nl) == [kind |-> "added", old_line |-> <<>>, new_line |-> <<nl>>]

Removed(ol) == [kind |-> "removed", old_line |-> <<ol>>, new_line |-> <<>>]

Context(ol, nl) == [kind |-> "context", old_line |-> <<ol>>, new_line |-> <<nl>>]

\* the hunk bodies of a record
HunkBodies ==
    {<<>>, <<Added(2)>>, <<Removed(1)>>, <<Context(3, 4)>>, <<Removed(4), Added(6)>>}

\* the (old_path, new_path) pairs: a modified file, a removed file, a new file
DiffPaths ==
    {<<<<"app/a.ts">>, <<"app/a.ts">>>>, <<<<"lib/x.ts">>, <<"lib/x.ts">>>>,
     <<<<"old.ts">>, <<>>>>, <<<<>>, <<"app/a.ts">>>>}

FileChangesRecords ==
    {[old_path |-> pp[1], new_path |-> pp[2], changes |-> b] : pp \in DiffPaths, b \in HunkBodies}

DiffLists == UNION {[1..n -> FileChangesRecords] : n \in 0..MaxDiffs}

NoChangedOutput == [changed_files |-> <<>>, changed_symbols |-> <<>>]

\* analyzer_for_path, fs::read_to_string and symbols_in_file (mapping.rs:70-76); a
\* file that cannot be read is skipped
MapSymbols(p) == IF p \in ResolveFiles THEN ResolveSymbols(p) ELSE <<>>

\* changed_files (mapping.rs:30-37)
ChangedFiles(diffs) ==
    Flatten([i \in 1..Len(diffs) |->
                IF diffs[i].new_path # <<>> THEN diffs[i].new_path ELSE diffs[i].old_path])

\* a variant that does not count context lines
LineOfChangeNoContext(ch) ==
    IF ch.kind \notin {"added", "removed"} THEN {}
    ELSE IF ch.new_line # <<>> THEN {ch.new_line[1]}
    ELSE IF ch.old_line # <<>> THEN {ch.old_line[1]}
    ELSE {}

\* the line a change inserts into the set (mapping.rs:45-55)
LineOfChange(ch) ==
    IF ch.kind \notin {"added", "removed", "context"} THEN {}
    ELSE IF ch.new_line # <<>> THEN {ch.new_line[1]}
    ELSE IF ch.old_line # <<>> THEN {ch.old_line[1]}
    ELSE {}

RECURSIVE ChangedLinesByFile(_, _)
\* changed_lines_by_file after the records diffs, starting from the map m
\* (mapping.rs:39-58); a map is a function from its keys
ChangedLinesByFile(m, diffs) ==
    IF diffs = <<>> THEN m
    ELSE LET fc == Head(diffs)
             path == fc.new_path[1]
             old == IF path \in DOMAIN m THEN m[path] ELSE {}
             new == old \cup UNION {LineOfChange(fc.changes[k]) : k \in 1..Len(fc.changes)}
         IN IF fc.new_path = <<>> THEN ChangedLinesByFile(m, Tail(diffs))
            ELSE ChangedLinesByFile([x \in DOMAIN m \cup {path} |->
                                        IF x = path THEN new ELSE m[x]], Tail(diffs))

\* intersects (mapping.rs:90-97)
Intersects(s, lines) == \E ln \in s.start_line..s.end_line : ln \in lines

\* the two loops over diffs (mapping.rs:30-58)
MapCollect ==
    /\ mpc = "start"
    /\ mLines' = ChangedLinesByFile(<<>>, mDiffs)
    /\ mTodo' = DOMAIN mLines'
    /\ mOut' = [changed_files |-> ChangedFiles(mDiffs), changed_symbols |-> <<>>]
    /\ mpc' = "emit"
    /\ UNCHANGED mDiffs
    /\ UNCHANGED <<impactVars, storeVars, readerVars, resolveVars, frontVars>>

\* one round of `for (path, lines) in changed_lines_by_file.iter()` (mapping.rs:61-82);
\* the hash map yields its entries in any order
MapEmit ==
    \E path \in mTodo :
        /\ mpc = "emit"
        /\ LET hit(s) == Intersects(s, mLines[path])
           IN mOut' = [mOut EXCEPT !.changed_symbols = @ \o SelectSeq(MapSymbols(path), hit)]
        /\ mTodo' = mTodo \ {path}
        /\ UNCHANGED <<mDiffs, mLines, mpc>>
        /\ UNCHANGED <<impactVars, storeVars, readerVars, resolveVars, frontVars>>

\* Ok(ChangedOutput { .. }) (mapping.rs:84-87)
MapReturn ==
    /\ mpc = "emit"
    /\ mTodo = {}
    /\ mpc' = "done"
    /\ UNCHANGED <<mDiffs, mLines, mTodo, mOut>>
    /\ UNCHANGED <<impactVars, storeVars, readerVars, resolveVars, frontVars>>

(***************************************************************************)
(* TsEngine (engine/ts.rs): each call opens the store, builds it when it   *)
(* holds no symbol, hands the diff's files to update_paths and loads the   *)
(* graph that compute_impact then walks.                                   *)
(***************************************************************************)
\* longest changed_files list of a diff
MaxListed == 2

\* the changed_files lists: the mapper keeps the diff's order and its repetitions
\* (mapping.rs:30-37)
ListedPaths == UNION {[1..n -> Paths] : n \in 0..MaxListed}

\* every workspace over the tabulated contents
AllWorkspaces ==
    {f \in [Paths -> {"m1", "m2", "a1", "r1", "r2", "absent"}] :
        \A p \in Paths : f[p] \in ContentsOf(p) \cup {"absent"}}

\* open, stats and the build_all of an empty store (ts.rs:27-33, 52-58)
EnsureBuilt(d, f) ==
    IF Stats(InitDb(d)).symbols = 0 THEN BuildAllStore(InitDb(d), f) ELSE InitDb(d)

\* the store that TsEngine::impact loads its graph from (ts.rs:27-41)
TsImpactStore(d, f, changed_files) == UpdatePathsStore(EnsureBuilt(d, f), f, changed_files)

\* the store that TsEngine::impact_from_symbols loads its graph from (ts.rs:52-59)
TsSeedStore(d, f) == EnsureBuilt(d, f)

\* the engine ran op on the store and loaded the graph; the stats of build_all and
\* update_paths are dropped
TsReturn(op, changed_files, d) ==
    /\ pc = "idle"
    /\ steps < MaxSteps
    /\ steps' = steps + 1
    /\ db' = d
    /\ preDb' = db
    /\ pend' = [op |-> op, paths |-> changed_files, snap |-> fs]
    /\ hist' = [tag |-> op, paths |-> changed_files, expect |-> <<>>, ret0 |-> ret]
    /\ legacy' = IF Stats(InitDb(db)).symbols = 0 THEN {} ELSE legacy \ Range(changed_files)
    /\ tsCall' = [op |-> op, changed_files |-> changed_files]
    /\ tsGraph' = <<LoadGraph(d)>>
    /\ UNCHANGED <<fs, opened, pc, ret>>
    /\ UNCHANGED <<impactVars, readerVars, resolveVars, mapVars, seedVars, lspVars, diffVars>>

\* TsEngine::impact (ts.rs:19-44) with the changed_files of its diff
TsImpactCall ==
    \E changed_files \in ListedPaths :
        TsReturn("impact", changed_files, TsImpactStore(db, fs, changed_files))

\* TsEngine::impact_from_symbols (ts.rs:46-62)
TsImpactFromSymbolsCall == TsReturn("impact_from_symbols", <<>>, TsSeedStore(db, fs))

\* update_paths with a list of several paths, on a store that build_all left for
\* an earlier state of the workspace
UpdatePathsListed ==
    /\ hist.tag = "none"
    /\ \E paths \in ListedPaths : StartUpdate("update", paths, "upd")

(***************************************************************************)
(* parse_seed_symbol (bin/dimpact.rs:257-289) and the text of a symbol id. *)
(* A seed string is a sequence of tokens: ":" is the character the code    *)
(* splits on, a decimal digit is a token of its own, and any other token   *)
(* stands for text without a colon.                                        *)
(***************************************************************************)
MaxSeedLine == 12

Digits == <<"0", "1", "2", "3", "4", "5", "6", "7", "8", "9">>

RECURSIVE Decimal(_)
\* the `{}` of format! for a u32
Decimal(n) ==
    IF n < 10 THEN <<Digits[n + 1]>> ELSE Decimal(n \div 10) \o <<Digits[(n % 10) + 1]>>

RECURSIVE DigitsValue(_, _)
\* the value of a run of digit tokens after the value acc
DigitsValue(acc, s) ==
    IF s = <<>> THEN acc
    ELSE DigitsValue(acc * 10 + (FirstIdx(Digits, Head(s)) - 1), Tail(s))

\* the digits s, leading zeros apart, spell a number above u32::MAX = 4294967295
OverflowsU32(s) ==
    LET nz == TrimStart(s, <<"0">>)
    IN \/ Len(nz) > 10
       \/ /\ Len(nz) = 10
          /\ \/ DigitsValue(0, SubSeq(nz, 1, 9)) > 429496729
             \/ /\ DigitsValue(0, SubSeq(nz, 1, 9)) = 429496729
                /\ DigitsValue(0, SubSeq(nz, 10, 10)) > 5

\* str::parse::<u32>: an optional "+", then one digit or more, no overflow
ParseU32(s) ==
    LET body == IF s # <<>> /\ Head(s) = "+" THEN Tail(s) ELSE s
    IN IF body = <<>> \/ \E i \in 1..Len(body) : FirstIdx(Digits, body[i]) = 0 THEN <<>>
       ELSE IF OverflowsU32(body) THEN <<>>
       ELSE <<DigitsValue(0, body)>>

RECURSIVE SplitN(_, _, _)
\* str::splitn(n, t): at most n parts, the last one keeps the separators left
SplitN(s, t, n) ==
    LET i == FirstIdx(s, t)
    IN IF n <= 1 \/ i = 0 THEN <<s>>
       ELSE <<SubSeq(s, 1, i - 1)>> \o SplitN(SubSeq(s, i + 1, Len(s)), t, n - 1)

\* SymbolId::new as the string it formats (ir.rs:36-46)
SymbolIdText(lang, file, kind, name, start_line) ==
    JoinWith(<<lang, file, <<KindToStr(kind)>>, name, Decimal(start_line)>>, ":")

\* `match kind_str { .. }` (bin/dimpact.rs:269-277): None for an unknown tag
SeedKind(kind_str) ==
    IF kind_str \in {<<"fn">>, <<"function">>} THEN <<"function">>
    ELSE IF kind_str = <<"method">> THEN <<"method">>
    ELSE IF kind_str = <<"struct">> THEN <<"struct">>
    ELSE IF kind_str = <<"enum">> THEN <<"enum">>
    ELSE IF kind_str = <<"trait">> THEN <<"trait">>
    ELSE IF kind_str \in {<<"mod">>, <<"module">>} THEN <<"module">>
    ELSE <<>>

\* the Symbol parse_seed_symbol builds (bin/dimpact.rs:279-288)
SeedSymbol(lang, file, kind, name, line) ==
    [id |-> SymbolIdText(lang, file, kind, name, line), name |-> name, kind |-> kind,
     file |-> file, start_line |-> line, end_line |-> line, language |-> lang]

\* parse_seed_symbol (bin/dimpact.rs:257-289)
ParseSeedSymbol(s) ==
    LET parts == SplitN(s, ":", 5)
    IN IF Len(parts) # 5 THEN [ok |-> FALSE, err |-> "invalid seed symbol format"]
       ELSE IF ParseU32(parts[5]) = <<>>
            THEN [ok |-> FALSE, err |-> "invalid LINE in seed symbol"]
       ELSE IF SeedKind(parts[3]) = <<>>
            THEN [ok |-> FALSE, err |-> "unknown KIND in seed symbol"]
       ELSE [ok |-> TRUE,
             sym |-> SeedSymbol(parts[1], parts[2], SeedKind(parts[3])[1], parts[4],
                                ParseU32(parts[5])[1])]

\* the components the seed strings are made of: a language, a path (one of a
\* file whose name holds a colon), a kind tag (the six tags, the two aliases
\* and a word that is no tag), a name and the text of a line
SeedLangs == {<<"typescript">>, <<"rust">>}
SeedFiles == {<<"a.ts">>, <<"src", "/", "a.ts">>, <<"notes", ":", "v2.ts">>}
SymbolKinds == {"function", "method", "struct", "enum", "trait", "module"}
SeedTags ==
    {<<KindToStr(k)>> : k \in SymbolKinds} \cup {<<"function">>, <<"module">>, <<"class">>}
SeedNames == {<<"f">>, <<"A">>}
SeedLines == 1..MaxSeedLine
SeedLineTexts == {Decimal(n) : n \in SeedLines} \cup {<<"x">>, <<>>}

\* the seed strings: the first k fields of the five, joined by colons
SeedStrings ==
    {JoinWith(SubSeq(<<l, f, t, n, ln>>, 1, k), ":") :
        l \in SeedLangs, f \in SeedFiles, t \in SeedTags, n \in SeedNames,
        ln \in SeedLineTexts, k \in 1..5}

\* parse_seed_symbol(s)
SeedParse ==
    /\ sdpc = "start"
    /\ sdOut' = <<ParseSeedSymbol(sdIn)>>
    /\ sdpc' = "done"
    /\ UNCHANGED sdIn
    /\ UNCHANGED <<impactVars, storeVars, readerVars, resolveVars, mapVars, lspVars, tsVars, diffVars>>

(***************************************************************************)
(* LspEngine (engine/lsp.rs).  A capability matrix is the set of the       *)
(* capabilities that are true.  What the language server and the project   *)
(* answer to the requests of one call (the outcome of lsp_changed_symbols, *)
(* lsp_impact_bfs, lsp_impact_references, scan_callees_for_changed and of  *)
(* the two graph builders) is chosen freely for every call.  A result is   *)
(* [tag, how]: tag "fallback" is what self.fallback returned, tag "lsp" a  *)
(* result the engine made itself, tag "err" an error.  Writing the         *)
(* capabilities to the error stream is left out.                           *)
(***************************************************************************)
Capabilities ==
    {"call_hierarchy", "references", "definition", "document_symbol", "workspace_symbol"}

\* the capability matrices the runs use
CapSets ==
    {{}, {"workspace_symbol"}, {"definition"}, {"call_hierarchy", "document_symbol"},
     Capabilities}

\* LspSession::new (engine/lsp.rs:35-146): None when it fails
LspSessionNew(cfg, args, env) ==
    IF env.disable_real /\ ~cfg.mock_lsp THEN <<>>
    ELSE IF cfg.mock_lsp
         THEN <<IF cfg.mock_caps # <<>> THEN cfg.mock_caps[1] ELSE Capabilities>>
    ELSE IF args.lang = "auto" THEN <<>>
    ELSE env.server

\* probe_update (engine/lsp.rs:209-217)
ProbeUpdate(caps, cfg) == IF cfg.mock_caps # <<>> THEN caps \cap cfg.mock_caps[1] ELSE caps

\* probe_files (engine/lsp.rs:219-242): answered are the probes the server answered
ProbeFiles(caps, cfg, answered) == IF cfg.mock_lsp THEN caps ELSE caps \cup answered

\* decide_changed_strategy (engine/lsp.rs:1148-1152)
DecideChangedStrategy(caps) ==
    IF "document_symbol" \in caps THEN "DocumentSymbol"
    ELSE IF "workspace_symbol" \in caps THEN "WorkspaceSymbol"
    ELSE "TsFallback"

Err(how) == [tag |-> "err", how |-> how]
Lsp(how) == [tag |-> "lsp", how |-> how]
Fallback == [tag |-> "fallback", how |-> "TsEngine"]

\* the answers one call may meet
Outcomes ==
    [changed : {"err", "empty", "some"}, bfs : {"err", "empty", "some"},
     refs : {"err", "empty", "some"}, callees : {"empty", "some"},
     graph : {"err", "empty", "some"}, ts_graph : {"err", "ok"}]

\* the probes of probe_files a server may answer
ProbeAnswers == {{}, {"document_symbol", "references"}}

\* changed_symbols with a session (engine/lsp.rs:351-371)
ChangedWithSession(cfg, caps, o) ==
    IF DecideChangedStrategy(caps) \in {"DocumentSymbol", "WorkspaceSymbol"}
    THEN IF o.changed = "err" THEN Err("lsp_changed_symbols")
         ELSE IF o.changed = "empty"
              THEN IF cfg.lsp_strict THEN Err("no symbols") ELSE Fallback
         ELSE Lsp("documentSymbol")
    ELSE IF cfg.lsp_strict THEN Err("no suitable symbol capability") ELSE Fallback

\* LspEngine::changed_symbols (engine/lsp.rs:331-380)
LspChangedSymbols(cfg, sess, o) ==
    IF ~cfg.lsp_strict THEN Fallback
    ELSE IF sess # <<>> THEN ChangedWithSession(cfg, sess[1], o)
    ELSE IF cfg.lsp_strict THEN Err("session") ELSE Fallback

\* direction asks for callers (Callers | Both)
WantsCallers(args) == args.direction \in {"callers", "both"}

\* direction asks for callees (Callees | Both)
WantsCallees(args) == args.direction \in {"callees", "both"}

\* the arm `Ok(mut o_empty)` of impact (engine/lsp.rs:420-450)
ImpactAfterEmptyBfs(cfg, args, caps, o) ==
    IF WantsCallers(args) /\ caps \cap {"references", "definition"} # {} /\ o.refs = "err"
    THEN Err("lsp_impact_references")
    ELSE IF WantsCallers(args) /\ caps \cap {"references", "definition"} # {} /\ o.refs = "some"
    THEN Lsp("references")
    ELSE IF WantsCallees(args) /\ o.callees = "some" THEN Lsp("callees")
    ELSE IF o.graph # "err" THEN Lsp("graph")
    ELSE IF cfg.lsp_strict THEN Lsp("empty") ELSE Fallback

\* the arm `Err(e)` of impact (engine/lsp.rs:451-475)
ImpactAfterFailedBfs(cfg, args, caps, o) ==
    IF WantsCallers(args) /\ caps \cap {"references", "definition"} # {} /\ o.refs = "err"
    THEN Err("lsp_impact_references")
    ELSE IF /\ WantsCallers(args) /\ caps \cap {"references", "definition"} # {}
            /\ o.refs = "some" \/ cfg.lsp_strict
    THEN Lsp("references")
    ELSE IF WantsCallees(args) /\ o.callees = "some" THEN Lsp("callees")
    ELSE IF o.graph = "some" \/ (o.graph = "empty" /\ cfg.lsp_strict) THEN Lsp("graph")
    ELSE IF cfg.lsp_strict THEN Err("lsp_impact_bfs") ELSE Fallback

\* impact with a session that has callHierarchy (engine/lsp.rs:408-476)
ImpactByCallHierarchy(cfg, args, caps, o) ==
    IF o.changed = "err" THEN Err("lsp_changed_symbols")
    ELSE IF cfg.mock_lsp
         THEN IF o.ts_graph = "err" THEN Err("build_project_graph") ELSE Lsp("project graph")
    ELSE IF o.bfs = "some" \/ (o.bfs = "empty" /\ o.changed = "empty") THEN Lsp("callHierarchy")
    ELSE IF o.bfs = "empty" THEN ImpactAfterEmptyBfs(cfg, args, caps, o)
    ELSE ImpactAfterFailedBfs(cfg, args, caps, o)

\* impact with a session (engine/lsp.rs:400-484)
ImpactWithSession(cfg, args, caps, o) ==
    IF "call_hierarchy" \in caps THEN ImpactByCallHierarchy(cfg, args, caps, o)
    ELSE IF caps \cap {"references", "definition"} # {}
         THEN IF WantsCallees(args)
              THEN IF cfg.lsp_strict THEN Err("callees via references") ELSE Fallback
              ELSE IF o.changed = "err" THEN Err("lsp_changed_symbols")
              ELSE IF o.refs = "err" THEN Err("lsp_impact_references")
              ELSE Lsp("references")
    ELSE IF cfg.lsp_strict THEN Err("no suitable impact capability") ELSE Fallback

\* a variant that falls back whenever there is no session
LspImpactLenient(cfg, args, sess, o) ==
    IF ~cfg.lsp_strict /\ ~cfg.mock_lsp THEN Fallback
    ELSE IF sess # <<>> THEN ImpactWithSession(cfg, args, sess[1], o)
    ELSE Fallback

\* LspEngine::impact (engine/lsp.rs:382-494)
LspImpact(cfg, args, sess, o) ==
    IF ~cfg.lsp_strict /\ ~cfg.mock_lsp THEN Fallback
    ELSE IF sess # <<>> THEN ImpactWithSession(cfg, args, sess[1], o)
    ELSE IF cfg.lsp_strict THEN Err("session") ELSE Fallback

\* LspEngine::impact_from_symbols (engine/lsp.rs:496-526)
LspImpactFromSymbols(cfg, args, sess, o) ==
    IF sess = <<>> THEN Err("session")
    ELSE IF "call_hierarchy" \in sess[1]
         THEN IF o.bfs = "some" \/ (o.bfs = "empty" /\ args.seeds_empty) THEN Lsp("callHierarchy")
              ELSE IF o.graph # "err" THEN Lsp("graph")
              ELSE IF o.bfs = "empty" THEN Lsp("empty")
              ELSE Err("lsp impact_from_symbols failed")
    ELSE IF sess[1] \cap {"references", "definition"} # {}
         THEN IF o.refs = "err" THEN Err("lsp_impact_references") ELSE Lsp("references")
    ELSE IF cfg.lsp_strict THEN Err("no suitable capabilities") ELSE Fallback

\* the session of a call that probes with probe_update and probe_files
ProbedSession(answered) ==
    LET sess == LspSessionNew(lspCfg, lspArgs, lspEnv)
    IN IF sess = <<>> THEN <<>>
       ELSE <<ProbeFiles(ProbeUpdate(sess[1], lspCfg), lspCfg, answered)>>

\* the session of a call that probes with probe_update only
UpdatedSession ==
    LET sess == LspSessionNew(lspCfg, lspArgs, lspEnv)
    IN IF sess = <<>> THEN <<>> ELSE <<ProbeUpdate(sess[1], lspCfg)>>

\* engine.changed_symbols(diffs, lang)
LspChangedSymbolsCall ==
    \E o \in Outcomes, answered \in ProbeAnswers :
        /\ lspc = "start"
        /\ lspCall' = [op |-> "changed_symbols", sess |-> ProbedSession(answered)]
        /\ lspRes' = <<LspChangedSymbols(lspCfg, ProbedSession(answered), o)>>
        /\ lspc' = "done"
        /\ UNCHANGED <<lspCfg, lspEnv, lspArgs>>
        /\ UNCHANGED <<impactVars, storeVars, readerVars, resolveVars, mapVars, seedVars, tsVars, diffVars>>

\* engine.impact(diffs, lang, opts)
LspImpactCall ==
    \E o \in Outcomes, answered \in ProbeAnswers :
        /\ lspc = "start"
        /\ lspCall' = [op |-> "impact", sess |-> ProbedSession(answered)]
        /\ lspRes' = <<LspImpact(lspCfg, lspArgs, ProbedSession(answered), o)>>
        /\ lspc' = "done"
        /\ UNCHANGED <<lspCfg, lspEnv, lspArgs>>
        /\ UNCHANGED <<impactVars, storeVars, readerVars, resolveVars, mapVars, seedVars, tsVars, diffVars>>

\* engine.impact_from_symbols(changed, lang, opts)
LspImpactFromSymbolsCall ==
    \E o \in Outcomes :
        /\ lspc = "start"
        /\ lspCall' = [op |-> "impact_from_symbols", sess |-> UpdatedSession]
        /\ lspRes' = <<LspImpactFromSymbols(lspCfg, lspArgs, UpdatedSession, o)>>
        /\ lspc' = "done"
        /\ UNCHANGED <<lspCfg, lspEnv, lspArgs>>
        /\ UNCHANGED <<impactVars, storeVars, readerVars, resolveVars, mapVars, seedVars, tsVars, diffVars>>

(***************************************************************************)
(* parse_unified_diff (diff.rs:61-179).  The input is the sequence of its  *)
(* lines; a line is the sequence of its characters, with a run that holds  *)
(* no marker character ('-', '+', '@', ' ', ',', '\', a digit) written as  *)
(* one token.                                                              *)
(***************************************************************************)
\* longest hunk body of the diffs handed in
MaxBody == 3

\* str::trim of a path: the spaces at both ends go
TrimSpaces(s) == TrimEnd(TrimStart(s, <<" ">>), <<" ">>)

\* strip_a_b_prefix (diff.rs:181-189)
StripABPrefix(path) ==
    IF StartsWith(path, <<"a/">>) THEN Tail(path)
    ELSE IF StartsWith(path, <<"b/">>) THEN Tail(path)
    ELSE path

\* the Option<String> made of a "--- " or "+++ " line (diff.rs:91-96, 100-105)
HeaderPath(line) ==
    LET path == TrimSpaces(SubSeq(line, 5, Len(line)))
    IN IF path = <<"/dev/null">> THEN <<>> ELSE <<StripABPrefix(path)>>

\* split_at_space (diff.rs:212-220)
SplitAtSpace(s) ==
    LET t == TrimStart(s, <<" ">>)
        pos == FirstIdx(t, " ")
    IN IF t = <<>> \/ pos = 0 THEN <<>>
       ELSE <<[part |-> SubSeq(t, 1, pos - 1), rest |-> SubSeq(t, pos + 1, Len(t))]>>

\* a.parse().unwrap_or(0)
ParseOrZero(s) == IF ParseU32(s) = <<>> THEN 0 ELSE ParseU32(s)[1]

\* parse_start_len (diff.rs:222-228)
ParseStartLen(s) ==
    LET pos == FirstIdx(s, ",")
    IN IF pos # 0
       THEN <<ParseOrZero(SubSeq(s, 1, pos - 1)), ParseOrZero(SubSeq(s, pos + 1, Len(s)))>>
       ELSE <<ParseOrZero(s), 1>>

\* parse_hunk_header (diff.rs:191-210): <<>> for InvalidHunkHeader
ParseHunkHeader(h) ==
    LET old == SplitAtSpace(h)
        new == IF old = <<>> THEN <<>> ELSE SplitAtSpace(old[1].rest)
    IN IF old = <<>> \/ ~StartsWith(old[1].part, <<"-">>) THEN <<>>
       ELSE IF new = <<>> \/ ~StartsWith(new[1].part, <<"+">>) THEN <<>>
       ELSE <<[old_start |-> ParseStartLen(Tail(old[1].part))[1],
               old_len |-> ParseStartLen(Tail(old[1].part))[2],
               new_start |-> ParseStartLen(Tail(new[1].part))[1],
               new_len |-> ParseStartLen(Tail(new[1].part))[2]]>>

DiffGitMark == <<"diff --git ">>

OldMark == <<"-", "-", "-", " ">>

NewMark == <<"+", "+", "+", " ">>

HunkMark == <<"@", "@", " ">>

\* the test that ends a hunk body (diff.rs:122-124)
EndsHunk(peek) ==
    StartsWith(peek, HunkMark) \/ StartsWith(peek, DiffGitMark) \/ StartsWith(peek, OldMark)

\* the Change pushed for a body line, <<>> for a "\ No newline" line, and what
\* the line adds to the two counters (diff.rs:126-164)
BodyChange(body, old_ln, new_ln) ==
    IF StartsWith(body, <<"+">>)
    THEN [push |-> <<[kind |-> "added", old_line |-> <<>>, new_line |-> <<new_ln>>,
                      content |-> Tail(body)]>>, old |-> 0, new |-> 1]
    ELSE IF StartsWith(body, <<"-">>)
    THEN [push |-> <<[kind |-> "removed", old_line |-> <<old_ln>>, new_line |-> <<>>,
                      content |-> Tail(body)]>>, old |-> 1, new |-> 0]
    ELSE IF StartsWith(body, <<" ">>) \/ body = <<>>
    THEN [push |-> <<[kind |-> "context", old_line |-> <<old_ln>>, new_line |-> <<new_ln>>,
                      content |-> IF body = <<>> THEN <<>> ELSE Tail(body)]>>,
          old |-> 1, new |-> 1]
    ELSE IF StartsWith(body, <<"\\">>)
    THEN [push |-> <<>>, old |-> 0, new |-> 0]
    ELSE [push |-> <<[kind |-> "context", old_line |-> <<old_ln>>, new_line |-> <<new_ln>>,
                      content |-> body]>>, old |-> 1, new |-> 1]

RECURSIVE HunkBody(_, _, _, _, _)
\* the `while let Some(&peek) = lines.peek()` loop (diff.rs:121-165) from line i on:
\* cur_changes and the index of the line the outer loop reads next
HunkBody(lines, i, old_ln, new_ln, cur_changes) ==
    IF i > Len(lines) \/ EndsHunk(lines[i]) THEN [changes |-> cur_changes, next |-> i]
    ELSE LET c == BodyChange(lines[i], old_ln, new_ln)
         IN HunkBody(lines, i + 1, old_ln + c.old, new_ln + c.new, cur_changes \o c.push)

\* flush_file (diff.rs:70-79)
FlushFile(st) ==
    IF st.changes # <<>> \/ st.old_path # <<>> \/ st.new_path # <<>>
    THEN [st EXCEPT !.files = Append(st.files, [old_path |-> st.old_path,
                                                new_path |-> st.new_path,
                                                changes |-> st.changes]),
                    !.old_path = <<>>, !.new_path = <<>>, !.changes = <<>>]
    ELSE st

RECURSIVE ParseLines(_, _, _)
\* the `while let Some(line) = lines.next()` loop (diff.rs:81-169) from line i on
ParseLines(lines, i, st) ==
    IF i > Len(lines) THEN st
    ELSE IF StartsWith(lines[i], DiffGitMark) THEN ParseLines(lines, i + 1, FlushFile(st))
    ELSE IF StartsWith(lines[i], OldMark)
    THEN LET st1 == [st EXCEPT !.old_path = HeaderPath(lines[i])]
         IN IF i + 1 <= Len(lines) /\ StartsWith(lines[i + 1], NewMark)
            THEN ParseLines(lines, i + 2, [st1 EXCEPT !.new_path = HeaderPath(lines[i + 1])])
            ELSE ParseLines(lines, i + 2, st1)
    ELSE IF StartsWith(lines[i], HunkMark)
    THEN LET range == ParseHunkHeader(SubSeq(lines[i], 4, Len(lines[i])))
         IN IF range = <<>> THEN [st EXCEPT !.err = <<"invalid hunk header">>]
            ELSE LET b == HunkBody(lines, i + 1, range[1].old_start, range[1].new_start,
                                   st.changes)
                 IN ParseLines(lines, b.next, [st EXCEPT !.changes = b.changes])
    ELSE ParseLines(lines, i + 1, st)

\* parse_unified_diff (diff.rs:61-179)
ParseUnifiedDiff(lines) ==
    LET st == ParseLines(lines, 1, [files |-> <<>>, old_path |-> <<>>, new_path |-> <<>>,
                                    changes |-> <<>>, err |-> <<>>])
    IN IF st.err # <<>> THEN [ok |-> FALSE, err |-> st.err[1]]
       ELSE IF FlushFile(st).files = <<>> THEN [ok |-> FALSE, err |-> "missing diff header"]
       ELSE [ok |-> TRUE, files |-> FlushFile(st).files]

\* the body lines of the hunks handed in: an added line, a removed line, a removed
\* line whose content is "-- note", a context line, the no-newline marker
BodyLines ==
    {<<"+", "x">>, <<"-", "y">>, <<"-", "-", "-", " ", "note">>, <<" ", "z">>,
     <<"\\", " No newline at end of file">>}

HunkBodyLists == UNION {[1..n -> BodyLines] : n \in 0..MaxBody}

\* the old and new start lines of the first hunk
HunkStarts == {1, 7}

\* what follows the first hunk: nothing, a second hunk, a second file
DiffTails == {"none", "hunk", "file"}

\* the hunk header git writes for the ranges
HunkHeader(old_start, old_len, new_start, new_len) ==
    <<"@", "@", " ", "-">> \o Decimal(old_start) \o <<",">> \o Decimal(old_len)
        \o <<" ", "+">> \o Decimal(new_start) \o <<",">> \o Decimal(new_len)
        \o <<" ", "@", "@">>

\* how many lines of the body count for the old (mark "-") or new (mark "+") side
SideLen(body, mark) ==
    Cardinality({i \in 1..Len(body) : body[i][1] \in {mark, " "}})

TailText(tail) ==
    CASE tail = "none" -> <<>>
      [] tail = "hunk" -> <<HunkHeader(20, 1, 20, 0), <<"-", "w">>>>
      [] tail = "file" -> <<<<"diff --git ", "a/", "bar.txt", " ", "b/", "bar.txt">>,
                            OldMark \o <<"a/", "bar.txt">>, NewMark \o <<"b/", "bar.txt">>,
                            HunkHeader(0, 0, 1, 1), <<"+", "v">>>>

\* the diff of foo.txt that git writes for a hunk at `start` with this body
DiffText(start, body, tail) ==
    <<<<"diff --git ", "a/", "foo.txt", " ", "b/", "foo.txt">>,
      <<"index 1111111..2222222 100644">>,
      OldMark \o <<"a/", "foo.txt">>,
      NewMark \o <<"b/", "foo.txt">>,
      HunkHeader(start, SideLen(body, "-"), start, SideLen(body, "+"))>>
        \o body \o TailText(tail)

DiffTexts == {DiffText(start, body, tail) : start \in HunkStarts, body \in HunkBodyLists,
                                            tail \in DiffTails}

\* parse_unified_diff, called and returned
DiffParse ==
    /\ dfpc = "start"
    /\ dfOut' = <<ParseUnifiedDiff(dfIn)>>
    /\ dfpc' = "done"
    /\ UNCHANGED dfIn
    /\ UNCHANGED <<impactVars, storeVars, readerVars, resolveVars, mapVars, seedVars, lspVars,
                   tsVars>>

(***************************************************************************)
(* Specifications.                                                         *)
(***************************************************************************)
\* the fields of ImpactOutput besides impacted_symbols, before compute_impact returns
NoOutput ==
    [changed_symbols |-> <<>>, impacted_files |-> <<>>, edges |-> <<>>,
     impacted_by_file |-> <<>>]

ImpactIdle ==
    /\ refs = <<>>
    /\ changed = <<>>
    /\ direction = "callers"
    /\ max_depth = <<>>
    /\ q = <<>>
    /\ seen = {}
    /\ impacted_symbols = <<>>
    /\ ipc = "idle"
    /\ with_edges = <<FALSE>>
    /\ ignore_dirs = {}
    /\ out = NoOutput

ReaderIdle ==
    /\ rpc = "idle"
    /\ rIndex = <<>>
    /\ rView = <<>>
    /\ rBase = {}

ResolveIdle ==
    /\ rsIndex = <<>>
    /\ rsUrefs = <<>>
    /\ rsImports = <<>>
    /\ rsOut = <<>>
    /\ rsLast = <<>>
    /\ rspc = "idle"

MapIdle ==
    /\ mDiffs = <<>>
    /\ mLines = <<>>
    /\ mTodo = {}
    /\ mOut = NoChangedOutput
    /\ mpc = "idle"

SeedIdle ==
    /\ sdIn = <<>>
    /\ sdOut = <<>>
    /\ sdpc = "idle"

NoCall == [op |-> "none", sess |-> <<>>]

LspIdle ==
    /\ lspCfg = [lsp_strict |-> FALSE, mock_lsp |-> FALSE, mock_caps |-> <<>>]
    /\ lspEnv = [disable_real |-> FALSE, server |-> <<>>]
    /\ lspArgs = [lang |-> "auto", direction |-> "callers", seeds_empty |-> TRUE]
    /\ lspCall = NoCall
    /\ lspRes = <<>>
    /\ lspc = "idle"

NoTsCall == [op |-> "none", changed_files |-> <<>>]

TsIdle == tsCall = NoTsCall /\ tsGraph = <<>>

DiffIdle == dfIn = <<>> /\ dfOut = <<>> /\ dfpc = "idle"

FrontIdle == SeedIdle /\ LspIdle /\ TsIdle /\ DiffIdle

StoreIdle ==
    /\ opened = FALSE
    /\ pc = "idle"
    /\ pend = NoPend
    /\ ret = <<>>
    /\ steps = 0
    /\ preDb = NoDb
    /\ hist = NoHist

\* compute_impact on every bounded input
ImpactInit ==
    /\ refs \in RefLists
    /\ changed \in SeedLists
    /\ direction \in Directions
    /\ max_depth \in DepthChoices
    /\ q = <<>>
    /\ seen = {}
    /\ impacted_symbols = <<>>
    /\ ipc = "start"
    /\ with_edges = <<FALSE>>
    /\ ignore_dirs = {}
    /\ out = NoOutput
    /\ fs \in {[p \in Paths |-> "absent"]}
    /\ db = NoDb
    /\ legacy = {}
    /\ StoreIdle
    /\ ReaderIdle
    /\ FrontIdle
    /\ ResolveIdle
    /\ MapIdle

ImpactNext == ImpactBegin \/ ImpactPop \/ ImpactFinish

SpecImpact == ImpactInit /\ [][ImpactNext]_vars

\* the edges of the output runs: main calls g, g calls the other function of
\* src/main.js, which calls main and the symbol the index lost
OutEdges ==
    {[from |-> 2, to |-> 1], [from |-> 1, to |-> 3], [from |-> 3, to |-> 2],
     [from |-> 3, to |-> 4]}

OutRefLists == UNION {[1..n -> OutEdges] : n \in 0..MaxRefs}

IgnoreDirChoices == SUBSET {<<"dist">>, <<"src">>}

\* compute_impact with every option, for the shape of its output
OutputInit ==
    /\ refs \in OutRefLists
    /\ changed \in SeedLists
    /\ direction \in Directions
    /\ max_depth \in {<<>>, <<1>>}
    /\ with_edges \in {<<>>, <<FALSE>>, <<TRUE>>}
    /\ ignore_dirs \in IgnoreDirChoices
    /\ q = <<>>
    /\ seen = {}
    /\ impacted_symbols = <<>>
    /\ out = NoOutput
    /\ ipc = "start"
    /\ fs \in {[p \in Paths |-> "absent"]}
    /\ db = NoDb
    /\ legacy = {}
    /\ StoreIdle
    /\ ReaderIdle
    /\ FrontIdle
    /\ ResolveIdle
    /\ MapIdle

SpecOutput == OutputInit /\ [][ImpactNext]_vars

\* the store, from no store file or from one another version left behind
Init ==
    /\ fs \in InitialWorkspaces
    /\ \/ db = NoDb /\ legacy = {}
       \/ db = LegacyDb /\ legacy = {"mod/real.ts"}
    /\ StoreIdle
    /\ ImpactIdle
    /\ ReaderIdle
    /\ FrontIdle
    /\ ResolveIdle
    /\ MapIdle

Next ==
    \/ Open
    \/ Clear
    \/ BuildAllBegin
    \/ BuildAllCommit
    \/ UpdatePathsBegin
    \/ Verify
    \/ UpdateEdges
    \/ Crash
    \/ WriteFile
    \/ DeleteFile

Spec == Init /\ [][Next]_vars

\* a writer and a reader of one store, over a workspace that stays as it is
ReaderInit ==
    /\ fs \in InitialWorkspaces
    /\ db = NoDb
    /\ legacy = {}
    /\ StoreIdle
    /\ ImpactIdle
    /\ ReaderIdle
    /\ FrontIdle
    /\ ResolveIdle
    /\ MapIdle

ReaderNext ==
    \/ Open
    \/ BuildAllBegin
    \/ BuildAllCommit
    \/ UpdatePathsBegin
    \/ UpdateEdges
    \/ ReadIndex
    \/ ReadEdges

SpecReader == ReaderInit /\ [][ReaderNext]_vars

\* resolve_references on every bounded input
ResolveInit ==
    /\ rsIndex \in {IndexOf(o) : o \in ResolveOrders}
    /\ rsUrefs \in UrefLists
    /\ rsImports \in ResolveImportMaps
    /\ rsOut = <<>>
    /\ rsLast = <<>>
    /\ rspc = "loop"
    /\ fs \in {[p \in Paths |-> "absent"]}
    /\ db = NoDb
    /\ legacy = {}
    /\ StoreIdle
    /\ ImpactIdle
    /\ ReaderIdle
    /\ FrontIdle
    /\ MapIdle

ResolveNext == ResolveRound \/ ResolveReturn

SpecResolve == ResolveInit /\ [][ResolveNext]_vars

\* parse_seed_symbol on every seed string
SeedInit ==
    /\ sdIn \in SeedStrings
    /\ sdOut = <<>>
    /\ sdpc = "start"
    /\ fs \in {[p \in Paths |-> "absent"]}
    /\ db = NoDb
    /\ legacy = {}
    /\ StoreIdle
    /\ ImpactIdle
    /\ \* the reader, the resolver and the mapper stay idle
       rpc = "idle" /\ rIndex = <<>> /\ rView = <<>> /\ rBase = {}
    /\ ResolveIdle
    /\ MapIdle
    /\ LspIdle
    /\ TsIdle
    /\ DiffIdle

SeedNext == SeedParse

SpecSeed == SeedInit /\ [][SeedNext]_vars

\* an LspEngine under every configuration, with or without a server
LspInit ==
    /\ lspCfg \in [lsp_strict : BOOLEAN, mock_lsp : BOOLEAN,
                   mock_caps : {<<>>} \cup {<<c>> : c \in CapSets}]
    /\ lspEnv \in [disable_real : BOOLEAN, server : {<<>>} \cup {<<c>> : c \in CapSets}]
    /\ lspArgs \in [lang : {"auto", "rust"}, direction : Directions, seeds_empty : BOOLEAN]
    /\ lspCall = NoCall
    /\ lspRes = <<>>
    /\ lspc = "start"
    /\ fs \in {[p \in Paths |-> "absent"]}
    /\ db = NoDb
    /\ legacy = {}
    /\ StoreIdle
    /\ ImpactIdle
    /\ rpc = "idle" /\ rIndex = <<>> /\ rView = <<>> /\ rBase = {}
    /\ ResolveIdle
    /\ MapIdle
    /\ SeedIdle
    /\ TsIdle
    /\ DiffIdle

LspNext == LspChangedSymbolsCall \/ LspImpactCall \/ LspImpactFromSymbolsCall

SpecLsp == LspInit /\ [][LspNext]_vars

\* TsEngine on a workspace that is edited between its calls
EngineInit ==
    /\ fs \in InitialWorkspaces
    /\ db = NoDb
    /\ legacy = {}
    /\ StoreIdle
    /\ ImpactIdle
    /\ ReaderIdle
    /\ FrontIdle
    /\ ResolveIdle
    /\ MapIdle

EngineNext == TsImpactCall \/ TsImpactFromSymbolsCall \/ WriteFile \/ DeleteFile

SpecEngine == EngineInit /\ [][EngineNext]_vars

\* update_paths with several paths, after build_all and edits of the workspace
UpdateInit ==
    /\ fs \in AllWorkspaces
    /\ db \in {BuildAllStore(InitDb(NoDb), f) : f \in AllWorkspaces}
    /\ legacy = {}
    /\ opened = TRUE
    /\ pc = "idle"
    /\ pend = NoPend
    /\ ret = <<>>
    /\ steps = 0
    /\ preDb = NoDb
    /\ hist = NoHist
    /\ ImpactIdle
    /\ ReaderIdle
    /\ FrontIdle
    /\ ResolveIdle
    /\ MapIdle

UpdateNext == UpdatePathsListed \/ UpdateEdges

SpecUpdate == UpdateInit /\ [][UpdateNext]_vars

\* parse_unified_diff on every bounded diff
DiffInit ==
    /\ dfIn \in DiffTexts
    /\ dfOut = <<>>
    /\ dfpc = "start"
    /\ fs \in {[p \in Paths |-> "absent"]}
    /\ db = NoDb
    /\ legacy = {}
    /\ StoreIdle
    /\ ImpactIdle
    /\ ReaderIdle
    /\ ResolveIdle
    /\ MapIdle
    /\ SeedIdle
    /\ LspIdle
    /\ TsIdle

DiffNext == DiffParse

SpecDiff == DiffInit /\ [][DiffNext]_vars

\* compute_changed_symbols on every bounded diff
MapInit ==
    /\ mDiffs \in DiffLists
    /\ mLines = <<>>
    /\ mTodo = {}
    /\ mOut = NoChangedOutput
    /\ mpc = "start"
    /\ fs \in {[p \in Paths |-> "absent"]}
    /\ db = NoDb
    /\ legacy = {}
    /\ StoreIdle
    /\ ImpactIdle
    /\ ReaderIdle
    /\ FrontIdle
    /\ ResolveIdle

MapNext == MapCollect \/ MapEmit \/ MapReturn

SpecMap == MapInit /\ [][MapNext]_vars

(***************************************************************************)
(* Shortest distances, defined without the queue: the nodes within k edges *)
(* of the seed set along the direction-selected adjacency.                 *)
(***************************************************************************)
Succs(n) ==
    {e.from : e \in {x \in Range(refs) : x.to = n /\ direction \in {"callers", "both"}}}
    \cup {e.to : e \in {x \in Range(refs) : x.from = n /\ direction \in {"callees", "both"}}}

RECURSIVE Within(_)
Within(k) ==
    IF k = 0 THEN Range(changed)
    ELSE LET w == Within(k - 1) IN w \cup UNION {Succs(n) : n \in w}

\* the distance bound that stands for "unbounded": no shortest path is longer
DepthLimit == IF max_depth = <<>> THEN Cardinality(AllIds) ELSE max_depth[1]

\* C1: when compute_impact returns, the reported ids are exactly the indexed,
\* non-seed symbols whose shortest distance from the seeds along the selected
\* adjacency is between 1 and max_depth (unbounded when max_depth is None), and
\* they are listed in id order without repetition.
C1_ImpactClosure ==
    ipc = "done" =>
        /\ Range(impacted_symbols) = (Within(DepthLimit) \ Range(changed)) \cap IndexedIds
        /\ \A i \in 1..Len(impacted_symbols) : \A j \in 1..Len(impacted_symbols) :
               i < j => impacted_symbols[i] < impacted_symbols[j]

\* a run that reported a node and cut another, reachable one off by max_depth
C1_Witness ==
    /\ ipc = "done"
    /\ max_depth = <<1>>
    /\ impacted_symbols # <<>>
    /\ \E n \in IndexedIds : n \in Within(Cardinality(AllIds)) /\ n \notin Range(impacted_symbols)
                             /\ n \notin Range(changed)

\* C2: a seed is never reported (also when another seed or a cycle reaches it);
\* no queue entry is deeper than max_depth, so a node at depth max_depth is never
\* expanded, yet an indexed non-seed node at exactly that depth is reported; with
\* max_depth = 0 nothing is reported.
C2_SeedsAndDepthBound ==
    /\ \A i \in 1..Len(q) : max_depth # <<>> => q[i][2] <= max_depth[1]
    /\ ipc = "done" =>
        /\ Range(impacted_symbols) \cap Range(changed) = {}
        /\ max_depth = <<0>> => impacted_symbols = <<>>
        /\ \A n \in IndexedIds \ Range(changed) :
               (max_depth # <<>> /\ n \in Within(max_depth[1])) => n \in Range(impacted_symbols)

\* a seed on a cycle through a node that is reported at depth max_depth
C2_Witness ==
    /\ ipc = "done"
    /\ max_depth = <<1>>
    /\ direction = "callees"
    /\ \E s \in Range(changed) : \E n \in Range(impacted_symbols) :
           n \in Succs(s) /\ s \in Succs(n)

(***************************************************************************)
(* What the properties of the store compare.                               *)
(***************************************************************************)
\* the rows of a table without their ids: each row with how often it occurs
RowBag(rows) == [r \in Range(rows) |-> Cardinality({i \in 1..Len(rows) : rows[i] = r})]

\* the store contents, ignoring row ids
Contents(d) == [files |-> d.files, symbols |-> RowBag(d.symbols), edges |-> RowBag(d.edges)]

\* the graph load_graph returns, as sets of symbols and edges
GraphSets(g) == [symbols |-> Range(g.index), edges |-> Range(g.edges)]

\* the store that clear, open and build_all leave for workspace f
FreshBuild(f) == BuildAllStore(InitDb(NoDb), f)

\* what the store holds about path p
FileRows(d, p) ==
    LET of(r) == r.file = p
    IN [row |-> d.files[p], symbols |-> RowBag(SelectSeq(d.symbols, of)),
        edges |-> RowBag(SelectSeq(d.edges, of))]

\* the files row of p says what the workspace says about p
Agrees(d, f, p) ==
    /\ d.files[p] # <<>>
    /\ IF IsFile(f, p)
       THEN d.files[p][1] = [lang |-> GuessLangFromExt(p), digest |-> FileDigest(f, p),
                             present |-> 1]
       ELSE d.files[p][1].present = 0

\* an update_paths or verify call has returned and the workspace is as it saw it
UpdateReturned ==
    pc = "idle" /\ hist.tag \in {"upd", "incr", "rep", "verified", "recovered"}

\* C3: after build_all, a modification of one file and update_paths([that file]),
\* the returned stats and the loaded graph are those of clear followed by
\* build_all on the same workspace.
C3_IncrementalEquivalence ==
    (pc = "idle" /\ hist.tag = "incr") =>
        /\ GraphSets(LoadGraph(db)) = GraphSets(LoadGraph(FreshBuild(fs)))
        /\ ret = <<Stats(FreshBuild(fs))>>

\* C4: the graph loaded after verify on a freshly opened store is, as sets of
\* symbols and edges, the graph loaded after build_all on a fresh store.
C4_RoundTripViaStore ==
    (pc = "idle" /\ hist.tag = "verified" /\ preDb = InitDb(NoDb)) =>
        GraphSets(LoadGraph(db)) = GraphSets(LoadGraph(FreshBuild(fs)))

\* C5: a second update_paths with the same path list on an unchanged workspace
\* leaves the store contents (rows without ids) as the first run left them and
\* returns the stats the first run returned.
C5_UpdateIdempotent ==
    (pc = "idle" /\ hist.tag = "rep") =>
        /\ Contents(db) = Contents(preDb)
        /\ ret = hist.ret0

\* a repeated update of a file that owns symbols and an edge
C5_Witness ==
    /\ pc = "idle"
    /\ hist.tag = "rep"
    /\ \E p \in Range(hist.paths) :
           /\ \E i \in 1..Len(db.symbols) : db.symbols[i].file = p
           /\ \E i \in 1..Len(db.edges) : db.edges[i].file = p

C7_CrashSafety ==
    (pc = "idle" /\ hist.tag = "recovered") =>
        \A p \in Range(hist.paths) : FileRows(db, p) = FileRows(hist.expect[1], p)

\* C8: the graph a reader's load_graph returns is the graph of a store as it
\* was before or after an operation that ran meanwhile.
C8_ReaderAtomicity ==
    rView # <<>> => \E d \in rBase : GraphSets(rView[1]) = GraphSets(LoadGraph(d))

\* C9: once open has returned, load_graph returns no row that was written under
\* another schema version.
C9_SchemaMismatchRebuilds ==
    opened => \A i \in 1..Len(LoadIndex(db)) : LoadIndex(db)[i].file \notin legacy

\* C10: when verify has returned, every workspace file has a files row with
\* present = 1, its current digest and the language of its extension; every
\* files row of a path without a file has present = 0; and no path whose row
\* agreed with the workspace was handed to update_paths.
C10_VerifyReconciles ==
    (pc = "idle" /\ hist.tag \in {"verified", "recovered"}) =>
        /\ \A p \in Paths : db.files[p] # <<>> \/ IsFile(fs, p) => Agrees(db, fs, p)
        /\ \A p \in Range(pend.paths) : ~Agrees(preDb, fs, p)

\* a verify that re-analysed an edited file and skipped one whose row agreed
C10_Witness ==
    /\ pc = "idle"
    /\ hist.tag = "verified"
    /\ \E p \in Range(pend.paths) :
           preDb.files[p] # <<>> /\ IsFile(fs, p) /\ preDb.files[p][1].digest # FileDigest(fs, p)
    /\ \E p \in Paths \ Range(pend.paths) : IsFile(fs, p) /\ Len(db.symbols) > 1


\* the analyzer yields no symbols and no references for the file at p
YieldsNothing(f, p) ==
    IsFile(f, p) /\ SymbolsInFile(p, f[p]) = <<>> /\ UnresolvedRefs(p, f[p]) = <<>>

\* C11: when build_all or update_paths has returned, a file of the workspace
\* (for update_paths: of the path list) for which the analyzer yields no symbols
\* and no references has a files row with its current digest, and a verify that
\* runs next on the unchanged workspace does not enqueue it.
C11_EmptyFileRecorded ==
    /\ (pc = "idle" /\ hist.tag = "built") =>
           \A p \in Paths : YieldsNothing(fs, p) =>
               Agrees(db, fs, p) /\ p \notin Range(ToUpdate(db, fs))
    /\ (pc = "idle" /\ hist.tag \in {"upd", "incr", "rep"}) =>
           \A p \in Range(pend.paths) : YieldsNothing(fs, p) =>
               Agrees(db, fs, p) /\ p \notin Range(ToUpdate(db, fs))


(***************************************************************************)
(* What the properties of the resolver compare.                            *)
(***************************************************************************)
\* the positions in the index of the symbols of `file` whose range holds `line`
Containing(index, file, line) ==
    {i \in 1..Len(index) : /\ index[i].file = file
                           /\ index[i].start_line <= line
                           /\ line <= index[i].end_line}

\* the number of lines in the range of symbol s
RangeSize(s) == s.end_line - s.start_line + 1

\* the symbols of the index with the id `id`
WithId(index, id) == {s \in Range(index) : s.id = id}

\* the targets of a list of references
Targets(rs) == [k \in 1..Len(rs) |-> rs[k].to]

\* C12: a reference made in a round of resolve_references has the id of
\* enclosing_symbol(r.file, r.line) as its `from` and the file and line of the
\* call site r; a call site with no enclosing symbol makes no reference; and the
\* returned list holds nothing but the references the rounds made.
C12_ResolverLocality ==
    /\ rsLast # <<>> =>
           LET r == rsLast[1].r
               made == rsLast[1].made
               from_sym == EnclosingSymbol(rsIndex, r.file, r.line)
           IN /\ Len(made) <= 1
              /\ from_sym = <<>> => made = <<>>
              /\ \A k \in 1..Len(made) :
                     /\ from_sym # <<>>
                     /\ made[k].from = from_sym[1].id
                     /\ made[k].file = r.file
                     /\ made[k].line = r.line
    /\ \A k \in 1..Len(rsOut) :
           \E i \in 1..Len(rsUrefs) :
               /\ rsOut[k].file = rsUrefs[i].file
               /\ rsOut[k].line = rsUrefs[i].line
               /\ Containing(rsIndex, rsUrefs[i].file, rsUrefs[i].line) # {}
               /\ rsOut[k].from \in {rsIndex[j].id :
                                       j \in Containing(rsIndex, rsUrefs[i].file, rsUrefs[i].line)}

\* a run that returned a reference for one call site and none for a call site
\* outside every symbol
C12_Witness ==
    /\ rspc = "done"
    /\ Len(rsUrefs) = 2
    /\ Len(rsOut) = 1
    /\ rsLast[1].made = <<>>
    /\ Containing(rsIndex, rsLast[1].r.file, rsLast[1].r.line) = {}

\* C13: enclosing_symbol(file, line) is, among the symbols of the file whose
\* range holds the line, the one with the smallest range, the first emitted among
\* equal ranges, and None when no range holds the line.
C13_EnclosingInnermost ==
    rsLast # <<>> =>
        LET r == rsLast[1].r
            cont == Containing(rsIndex, r.file, r.line)
            innermost == CHOOSE i \in cont : \A j \in cont :
                             \/ RangeSize(rsIndex[i]) < RangeSize(rsIndex[j])
                             \/ RangeSize(rsIndex[i]) = RangeSize(rsIndex[j]) /\ i <= j
        IN EnclosingSymbol(rsIndex, r.file, r.line)
               = IF cont = {} THEN <<>> ELSE <<rsIndex[innermost]>>

\* C14: the target of every reference made, by the same-name lookup or by the
\* module-only fallback, is a symbol of the index whose kind is function or
\* method.
C14_TargetsCallable ==
    /\ rsLast # <<>> =>
           \A k \in 1..Len(rsLast[1].made) :
               /\ WithId(rsIndex, rsLast[1].made[k].to) # {}
               /\ \A s \in WithId(rsIndex, rsLast[1].made[k].to) :
                      s.kind \in {"function", "method"}
    /\ \A k \in 1..Len(rsOut) :
           \A s \in WithId(rsIndex, rsOut[k].to) : s.kind \in {"function", "method"}

\* a run that resolved g() by name and h(), which only a class is named, through
\* the imported module
C14_Witness ==
    /\ rspc = "done"
    /\ rsUrefs = <<Call("app/a.ts", "g", 2), Call("app/a.ts", "h", 4)>>
    /\ Len(rsOut) = 2
    /\ \E s \in WithId(rsIndex, rsOut[2].to) : s.name = "g" /\ s.file = "lib/y.ts"

\* C15: the target chosen for a call site does not depend on the order in which
\* the symbols were given to SymbolIndex::build: for every order of the files,
\* the round makes a reference to the same target.
C15_TieBreakById ==
    rsLast # <<>> =>
        \A o \in ResolveOrders :
            Targets(ResolveOne(IndexOf(o), rsLast[1].r, rsImports)) = Targets(rsLast[1].made)

\* C16: for a member-style call site, the target is never a free function that
\* has a method of the same name in the same file (the two are equal in every
\* scoring signal but the kind); the call x.m() in f resolves to the method m of
\* class A and not to the function m of the same file.
C16_MethodPreferred ==
    rsLast # <<>> /\ rsLast[1].r.is_method =>
        LET r == rsLast[1].r
            made == rsLast[1].made
        IN /\ \A k \in 1..Len(made) : \A t \in WithId(rsIndex, made[k].to) :
                  t.kind = "function" =>
                      ~\E c \in Range(rsIndex) :
                           c.kind = "method" /\ c.name = t.name /\ c.file = t.file
           /\ r.name = "m" /\ r.file = "app/a.ts" =>
                  Targets(made) = <<SymbolIdNew("typescript", "app/a.ts", "method", "m", 2)>>

\* a round that resolved x.m() with a method m and a function m in the same file
C16_Witness ==
    /\ rsLast # <<>>
    /\ rsLast[1].r.is_method
    /\ rsLast[1].made # <<>>
    /\ \E c, d \in Range(rsIndex) :
           /\ c.kind = "method" /\ d.kind = "function"
           /\ c.name = rsLast[1].r.name /\ d.name = c.name /\ d.file = c.file
           /\ rsLast[1].made[1].to = c.id

\* the qualifier of call site r after normalisation
SiteQualifier(r) ==
    QualifierOf(r, ImportsOf(rsImports, r.file), ModulePathForFile(PathText(r.file)))

\* target name, imported prefix and glob prefixes of call site r
SiteTarget(r) ==
    TargetOf(r, rsImports, ImportVals(ImportsOf(rsImports, r.file), "glob"),
             ModulePathForFile(PathText(r.file)),
             IF SiteQualifier(r) = <<>>
             THEN ImportGet(ImportsOf(rsImports, r.file), "alias", <<r.name>>)
             ELSE <<>>)

\* the symbols that have the target name of r
SameName(r) == {s \in Range(rsIndex) : <<s.name>> = SiteTarget(r).tn}

\* the symbols of S that are functions or methods
Callables(S) == {s \in S : s.kind \in {"function", "method"}}

\* the same-name symbols in a file that matches the qualifier of r
QualifierMatched(r) ==
    {s \in SameName(r) : /\ SiteQualifier(r) # <<>>
                         /\ FileMatchesModulePath(PathText(s.file), SiteQualifier(r)[1])}

\* the candidates of step 5: the qualifier's matches, or all when there are none
CandidateSet(r) == IF QualifierMatched(r) # {} THEN QualifierMatched(r) ELSE SameName(r)

\* the module hints of step 6
ModuleHints(r) ==
    (IF SiteQualifier(r) # <<>> THEN {SiteQualifier(r)[1]} ELSE {})
    \cup (IF SiteTarget(r).has /\ SiteTarget(r).ip # <<>> THEN {SiteTarget(r).ip} ELSE {})
    \cup SiteTarget(r).globs

\* the functions and methods of the hinted modules
HintMatched(r) ==
    {s \in Callables(Range(rsIndex)) :
        \E mp \in ModuleHints(r) : FileMatchesModulePath(PathText(s.file), mp)}

\* the symbols the references `made` point to
TargetSymbols(made) == UNION {WithId(rsIndex, made[k].to) : k \in 1..Len(made)}

\* C23: in a round for a call site inside a symbol: when the candidates (the
\* same-name symbols of the files matching the qualifier, or all same-name
\* symbols when no file matches or there is no qualifier) include a function or
\* method, a reference is made to one of these; otherwise the target is a
\* function or method of a module hinted by qualifier, imported prefix or glob
\* prefix, and no reference is made when there is no hint or no such symbol.
C23_CandidateSelection ==
    rsLast # <<>> /\ EnclosingSymbol(rsIndex, rsLast[1].r.file, rsLast[1].r.line) # <<>> =>
        LET r == rsLast[1].r
            made == rsLast[1].made
        IN IF Callables(CandidateSet(r)) # {}
           THEN made # <<>> /\ TargetSymbols(made) \subseteq Callables(CandidateSet(r))
           ELSE IF ModuleHints(r) = {} \/ HintMatched(r) = {}
                THEN made = <<>>
                ELSE made # <<>> /\ TargetSymbols(made) \subseteq HintMatched(r)

\* y.g() in f of app/a.ts, no import: the qualifier is app::a::y, g of
\* app/a/y.ts is chosen and the functions g of lib/ are left out
C23_Witness ==
    /\ rsLast # <<>>
    /\ rsLast[1].r = MemberCall("app/a.ts", "g", 4, <<<<"y">>>>)
    /\ ImportsOf(rsImports, "app/a.ts") = {}
    /\ Callables(SameName(rsLast[1].r)) \ CandidateSet(rsLast[1].r) # {}
    /\ \E s \in TargetSymbols(rsLast[1].made) : s.file = "app/a/y.ts" /\ s.name = "g"

\* C28 as stated: when the index holds a function or method with the target
\* name of the call site, every reference the round makes points to a symbol
\* of that name.
C28_NameFidelity ==
    rsLast # <<>> /\ Callables(SameName(rsLast[1].r)) # {} =>
        \A s \in TargetSymbols(rsLast[1].made) : <<s.name>> = SiteTarget(rsLast[1].r).tn

\* C28: when the candidates the qualifier leaves (the same-name symbols of the
\* files matching the qualifier, or all same-name symbols when no file matches
\* or there is no qualifier) include a function or method, every reference the
\* round makes points to a symbol of the target name; a symbol of another name
\* is the target only when these candidates include no function or method.
C28_NameFidelityOfCandidates ==
    rsLast # <<>> =>
        /\ Callables(CandidateSet(rsLast[1].r)) # {} =>
               \A s \in TargetSymbols(rsLast[1].made) :
                   <<s.name>> = SiteTarget(rsLast[1].r).tn
        /\ \A s \in TargetSymbols(rsLast[1].made) :
               <<s.name>> # SiteTarget(rsLast[1].r).tn =>
                   Callables(CandidateSet(rsLast[1].r)) = {}

\* x.m() in f with the namespace import in force: lib/y.ts is a hinted module
\* with a function of another name, and the method m is chosen
C28_Witness ==
    /\ rsLast # <<>>
    /\ rsLast[1].r = MemberCall("app/a.ts", "m", 4, <<<<"x">>>>)
    /\ HintMatched(rsLast[1].r) # {}
    /\ \A s \in HintMatched(rsLast[1].r) : s.name # "m"
    /\ \E s \in TargetSymbols(rsLast[1].made) : s.name = "m" /\ s.kind = "method"


(***************************************************************************)
(* What the property of the mapper compares.                               *)
(***************************************************************************)
\* the changed-line set of path p: new_line of every change of a record with
\* new_path p that has one, old_line otherwise
ChangedLineSet(p) ==
    {IF ch.new_line # <<>> THEN ch.new_line[1] ELSE ch.old_line[1] :
        ch \in UNION {Range(mDiffs[i].changes) :
                        i \in {j \in 1..Len(mDiffs) : mDiffs[j].new_path = <<p>>}}}

\* C17: when compute_changed_symbols returns, for every diff record with a
\* new_path, a symbol of that file is in changed_symbols if and only if its
\* inclusive line range holds a line of the file's changed-line set (new_line of
\* a change when it has one, old_line otherwise; added, removed and context
\* changes alike), and changed_symbols holds no symbol of any other file.
C17_ChangedSymbolFaithful ==
    mpc = "done" =>
        /\ \A i \in 1..Len(mDiffs) : mDiffs[i].new_path # <<>> =>
               \A s \in Range(MapSymbols(mDiffs[i].new_path[1])) :
                   s \in Range(mOut.changed_symbols)
                       <=> \E ln \in ChangedLineSet(s.file) :
                               s.start_line <= ln /\ ln <= s.end_line
        /\ \A s \in Range(mOut.changed_symbols) :
               \E i \in 1..Len(mDiffs) : mDiffs[i].new_path = <<s.file>>

\* a diff whose only change on app/a.ts is a context line with old_line 3 and
\* new_line 4: f (line 4) is reported, the class A (lines 1-3) is not
C17_Witness ==
    /\ mpc = "done"
    /\ \E i \in 1..Len(mDiffs) : mDiffs[i].changes = <<Context(3, 4)>>
    /\ ChangedLineSet("app/a.ts") = {4}
    /\ {s.name : s \in Range(mOut.changed_symbols)} = {"f"}


(***************************************************************************)
(* What the properties of the impact output compare.                       *)
(***************************************************************************)
\* file lies under one of the prefixes dirs
Under(file, dirs) == \E d \in dirs : StartsWith(PathText(file), d)

\* the seed ids that are not under dirs
SeedsOutside(dirs) == {id \in Range(changed) : ~Under(IdFile(id), dirs)}

RECURSIVE WithinOf(_, _)
\* the nodes within k edges of the set S along the direction-selected adjacency
WithinOf(S, k) ==
    IF k = 0 THEN S
    ELSE LET w == WithinOf(S, k - 1) IN w \cup UNION {Succs(n) : n \in w}

\* the impacted ids for the ignore list dirs: reached from the seeds outside
\* dirs, not a seed, indexed and not under dirs
ImpactedFor(dirs) ==
    {id \in (WithinOf(SeedsOutside(dirs), DepthLimit) \ SeedsOutside(dirs)) \cap IndexedIds :
        ~Under(IdFile(id), dirs)}

\* the edges of the output for the ignore list dirs
EdgesFor(dirs) ==
    IF with_edges = <<TRUE>>
    THEN {e \in Range(refs) : {e.from, e.to} \cap (SeedsOutside(dirs) \cup ImpactedFor(dirs)) # {}}
    ELSE {}

\* the sequence s is in ascending order (equal neighbours allowed)
Ascending(s) == \A i \in 1..Len(s) : \A j \in 1..Len(s) : i < j => s[i] <= s[j]

C19_EdgeProjection ==
    ipc = "done" =>
        LET nodes == Range(out.changed_symbols) \cup Range(impacted_symbols)
            touches(e) == e.from \in nodes \/ e.to \in nodes
        IN out.edges = IF with_edges = <<TRUE>> THEN SelectSeq(refs, touches) ELSE <<>>

\* a run with with_edges that kept one reference (one endpoint is a seed, the
\* other is cut off by max_depth) and left another out
C19_Witness ==
    /\ ipc = "done"
    /\ with_edges = <<TRUE>>
    /\ ignore_dirs = {}
    /\ Len(refs) = 2
    /\ Len(out.edges) = 1
    /\ \E e \in Range(out.edges) :
           {e.from, e.to} \cap Range(impacted_symbols) = {}

\* C20: when compute_impact returns, changed_symbols, impacted_symbols and every
\* group of impacted_by_file are in ascending order of symbol id, and
\* impacted_files is in ascending order without duplicates.
C20_SortedOutput ==
    ipc = "done" =>
        /\ Ascending(out.changed_symbols)
        /\ Ascending(impacted_symbols)
        /\ \A f \in DOMAIN out.impacted_by_file : Ascending(out.impacted_by_file[f])
        /\ \A i \in 1..Len(out.impacted_files) : \A j \in 1..Len(out.impacted_files) :
               i < j => /\ out.impacted_files[i] # out.impacted_files[j]
                        /\ \E a \in 1..Len(FileOrder) : \E b \in 1..Len(FileOrder) :
                               /\ a < b
                               /\ FileOrder[a] = out.impacted_files[i]
                               /\ FileOrder[b] = out.impacted_files[j]


\* the number of colons in the string s
Colons(s) == Cardinality({i \in 1..Len(s) : s[i] = ":"})

\* C21: when parse_seed_symbol returns: a string that SymbolId::new makes of a
\* language, path, kind, name and start line is accepted, and the symbol has
\* these five components and that string as its id; a string with the tag
\* function or module is accepted with the id that has fn or mod in its place;
\* a string with fewer than five fields, a line that is no number or a tag
\* outside the eight words is rejected.
C21_SeedRoundTrip ==
    sdpc = "done" =>
        LET res == sdOut[1]
        IN /\ \A l \in SeedLangs, f \in SeedFiles, k \in SymbolKinds, n \in SeedNames,
                 ln \in SeedLines :
                 /\ sdIn = SymbolIdText(l, f, k, n, ln) =>
                        /\ res.ok
                        /\ res.sym.language = l /\ res.sym.file = f /\ res.sym.kind = k
                        /\ res.sym.name = n /\ res.sym.start_line = ln
                        /\ res.sym.id = sdIn
                 /\ /\ k \in {"function", "module"}
                    /\ sdIn = JoinWith(<<l, f, <<k>>, n, Decimal(ln)>>, ":")
                    => res.ok /\ res.sym.id = SymbolIdText(l, f, k, n, ln)
           /\ Colons(sdIn) < 4 => ~res.ok
           /\ \A l \in SeedLangs, f \in SeedFiles, t \in SeedTags, n \in SeedNames,
                 ln \in SeedLineTexts :
                 /\ sdIn = JoinWith(<<l, f, t, n, ln>>, ":")
                 /\ ln \in {<<"x">>, <<>>} \/ t = <<"class">>
                 => ~res.ok


\* the capabilities of which an operation needs one
NeededBy(op) ==
    IF op = "changed_symbols" THEN {"document_symbol", "workspace_symbol"}
    ELSE {"call_hierarchy", "references", "definition"}

\* the call met no session, or a session without any capability the operation needs
NoUsableSession ==
    lspCall.sess = <<>> \/ lspCall.sess[1] \cap NeededBy(lspCall.op) = {}

\* C22: when changed_symbols or impact of the LspEngine returns and the session
\* could not be established or has none of the capabilities the operation
\* needs, the result is an error in strict mode and the fallback engine's
\* result in non-strict mode.
C22_LspFailurePolicy ==
    lspc = "done" /\ lspCall.op \in {"changed_symbols", "impact"} /\ NoUsableSession =>
        lspRes[1].tag = IF lspCfg.lsp_strict THEN "err" ELSE "fallback"

\* strict impact on a mock session that has the symbol capabilities only
C22_Witness ==
    /\ lspc = "done"
    /\ lspCall.op = "impact"
    /\ lspCfg.lsp_strict /\ lspCfg.mock_lsp
    /\ lspCall.sess = <<{"workspace_symbol"}>>
    /\ lspRes[1] = Err("no suitable impact capability")

\* C30: when impact_from_symbols of the LspEngine returns and the session could
\* not be established, the result is the fallback engine's result in non-strict
\* mode and an error in strict mode.
C30_SeedImpactFallsBack ==
    lspc = "done" /\ lspCall.op = "impact_from_symbols" /\ lspCall.sess = <<>> =>
        lspRes[1].tag = IF lspCfg.lsp_strict THEN "err" ELSE "fallback"

(***************************************************************************)
(* What the properties of update_paths with several paths compare.         *)
(***************************************************************************)
\* update_paths(pend.paths) has returned
ListedDone == pc = "idle" /\ pend.op = "update" /\ hist.tag = "upd"

\* the edges rows the store holds for path p
EdgeRowsOf(d, p) == {r \in Range(d.edges) : r.file = p}

\* the path lists that name the paths of `paths`, each as often, in any order
Reorderings(paths) ==
    {o \in [1..Len(paths) -> Range(paths)] :
        \A p \in Range(paths) :
            Cardinality({i \in 1..Len(o) : o[i] = p})
                = Cardinality({i \in 1..Len(paths) : paths[i] = p})}

\* the symbol ids stored for path p
SidsOf(d, p) == {r.sid : r \in {x \in Range(d.symbols) : x.file = p}}

\* C24: when update_paths has returned, the edges stored for each listed path are
\* its call sites resolved against the symbols of the untouched files and of
\* every listed file, and the loaded graph is the same for every order of the
\* path list.
C24_TwoPhaseUpdate ==
    ListedDone =>
        /\ \A p \in Range(pend.paths) :
               EdgeRowsOf(db, p)
                   = {EdgeRow(e) : e \in Range(RefsOfPath(LoadIndex(db), pend.snap, p))}
        /\ \A o \in Reorderings(pend.paths) :
               GraphSets(LoadGraph(db))
                   = GraphSets(LoadGraph(UpdatePathsStore(preDb, pend.snap, o)))

\* a call site of the path listed first is stored with an edge to a symbol that
\* the same call added for the path listed second
C24_Witness ==
    /\ ListedDone
    /\ Len(pend.paths) = 2
    /\ pend.paths[1] # pend.paths[2]
    /\ \E r \in EdgeRowsOf(db, pend.paths[1]) :
           /\ r.to_sid \in SidsOf(db, pend.paths[2])
           /\ r.to_sid \notin SidsOf(preDb, pend.paths[2])

\* the path list with every path kept where it is named first
Deduplicated(paths) ==
    LET first(i) == \A j \in 1..(i - 1) : paths[j] # paths[i]
        kept == {i \in 1..Len(paths) : first(i)}
    IN [k \in 1..Cardinality(kept) |->
            paths[CHOOSE i \in kept : Cardinality({j \in kept : j <= i}) = k]]

\* C25: when update_paths has returned, the symbols and edges rows of the store
\* are, row for row and each as often, those that the call with the deduplicated
\* path list leaves.
C25_RepetitionInsensitive ==
    ListedDone =>
        Contents(db) = Contents(UpdatePathsStore(preDb, pend.snap, Deduplicated(pend.paths)))

\* the symbol ids of the symbols table
StoredSids(d) == {d.symbols[i].sid : i \in 1..Len(d.symbols)}

\* the symbol ids of the index load_graph returns
LoadedIds(d) == {LoadIndex(d)[i].id : i \in 1..Len(LoadIndex(d))}

\* C26: when update_paths or verify has returned, every edges row of a file that
\* was not in the path list has its from and to symbol ids in the symbols table,
\* and every edge load_graph returns has both endpoints in the returned index.
C26_NoDanglingEdges ==
    UpdateReturned =>
        /\ \A r \in Range(db.edges) :
               r.file \notin Range(pend.paths) =>
                   r.from_sid \in StoredSids(db) /\ r.to_sid \in StoredSids(db)
        /\ \A e \in Range(LoadEdges(db)) :
               e.from \in LoadedIds(db) /\ e.to \in LoadedIds(db)

(***************************************************************************)
(* What the properties of TsEngine compare.                                *)
(***************************************************************************)
\* an engine call has returned and the workspace is as the call saw it
TsReturned == pc = "idle" /\ tsGraph # <<>> /\ hist.tag = tsCall.op

\* the symbols the analyzer yields for the file at p, as load_index returns them
CurrentSymbols(f, p) ==
    {RowSym(SymRow(SymbolsInFile(p, f[p])[i])) : i \in 1..Len(SymbolsInFile(p, f[p]))}

\* C27: the graph that TsEngine.impact and TsEngine.impact_from_symbols load has,
\* for every path the diff does not name, the symbols of the file as it is now
\* and the edges a fresh build_all of the workspace stores for it.
C27_GraphFreshness ==
    TsReturned =>
        \A p \in Paths \ Range(tsCall.changed_files) :
            /\ {x \in Range(tsGraph[1].index) : x.file = p} = CurrentSymbols(fs, p)
            /\ {e \in Range(tsGraph[1].edges) : e.file = p}
                   = {e \in Range(LoadEdges(FreshBuild(fs))) : e.file = p}

(***************************************************************************)
(* What the properties of parse_unified_diff compare.                      *)
(***************************************************************************)
\* the Removed changes a hunk at `start` with this body stands for: one for each
\* line that begins with '-', numbered on the old side
RemovedOfBody(start, body) ==
    LET minus == {i \in 1..Len(body) : body[i][1] = "-"}
        nth(k) == CHOOSE i \in minus : Cardinality({j \in minus : j <= i}) = k
        old_ln(i) == start + Cardinality({j \in 1..(i - 1) : body[j][1] \in {"-", " "}})
    IN [k \in 1..Cardinality(minus) |->
            [kind |-> "removed", old_line |-> <<old_ln(nth(k))>>, new_line |-> <<>>,
             content |-> Tail(body[nth(k)])]]

\* the Removed changes of a record
RemovedChanges(changes) == LET rem(c) == c.kind = "removed" IN SelectSeq(changes, rem)

\* C29: for the diff of a file with one hunk, the parser returns a first record
\* with the paths of the file's header whose Removed changes begin with one
\* change for each body line that begins with '-', in order, with the old line
\* numbers counted from the hunk's old start; this includes a removed line whose
\* content begins with "-- ".
C29_HunkBodies ==
    dfpc = "done" =>
        \A start \in HunkStarts, body \in HunkBodyLists, tail \in DiffTails :
            dfIn = DiffText(start, body, tail) =>
                /\ dfOut[1].ok
                /\ dfOut[1].files[1].old_path = <<<<"foo.txt">>>>
                /\ dfOut[1].files[1].new_path = <<<<"foo.txt">>>>
                /\ LET got == RemovedChanges(dfOut[1].files[1].changes)
                       want == RemovedOfBody(start, body)
                   IN Len(want) <= Len(got) /\ SubSeq(got, 1, Len(want)) = want

=============================================================================
